---- MODULE Spec2Model ----
(***************************************************************************)
(* Model of the value-standardization and schema-remapping engine of the   *)
(* TCIA clinical validator / remapper:                                     *)
(*   tcia-remapping-skill/remap_helper.py, tcia-remapping-skill/           *)
(*   mdf_parser.py, and the validation and correction routines of          *)
(*   tcia-clinical-validator.py and tcia-remapper.py.                      *)
(*                                                                         *)
(* A text is a sequence of one-character strings, so that lower-casing,    *)
(* trimming and splitting are computed as the code computes them.  A       *)
(* missing cell (pandas NaN / None) is the distinguished value NaN.        *)
(*                                                                         *)
(* Specifications:                                                         *)
(*   SpecApply     a CorrectionMap applied to a table, repeatedly          *)
(*   SpecPhase2    the remapper's Phase 2: split, link, validate, save     *)
(*   SpecSplit     split_data_by_schema on a table and a mapping           *)
(*   SpecSchema    transform_mdf_to_schema on the parsed documents         *)
(*   SpecWrite     write_metadata_tsv, called repeatedly                   *)
(*   SpecClinical  the clinical validator wizard, steps 1 to 4             *)
(*   SpecValidate  validate_dataframe on a table and an entity name        *)
(*   SpecMatch     get_closest_match on a candidate and a vocabulary       *)
(*   SpecLoad      load_resources on the documents that are there          *)
(*   SpecOptions   get_prioritized_options on a value and a vocabulary     *)
(*   SpecSession   the remapper's session: phases, uploads, reset          *)
(*   SpecWizard    the clinical validator's session, steps 1 to 7          *)
(***************************************************************************)
EXTENDS Integers, Sequences, FiniteSets, TLC

VARIABLES
    \* ---- correction application (remapper Phase 2 / validator step 4)
    entity_df,      \* the table corrections are applied to: a sequence of rows
    df0,            \* the table as it was before any correction was applied
    corrections,    \* CorrectionMap: column -> (old value -> new value)
    applied,        \* how many times the map has been applied
    \* ---- remapper session and Phase 2 (tcia-remapper.py)
    uploaded_data,  \* st.session_state.uploaded_data: the source table
    column_mapping, \* st.session_state.column_mapping: target key -> source column
    metadata,       \* st.session_state.metadata: Phase 0 entity -> list of records
    ran,            \* whether the Phase 2 script has run on this session
    split_data,     \* split_data of the last Phase 2 run: entity -> table
    missing_links,  \* missing_links of the last Phase 2 run
    validation,     \* entity -> [report, corrections] of the last Phase 2 run
    files,          \* the output directory: file name -> table written
    clicked,        \* the entities whose "Apply Corrections" button was pressed
    \* ---- schema loading (mdf_parser.py)
    model_doc,      \* the parsed model document: Nodes and Relationships
    props_doc,      \* the parsed property definitions: name -> definition
    load_result,    \* what transform_mdf_to_schema returned, or NotLoaded
    \* ---- remap_helper.write_metadata_tsv
    write_entity,   \* entity_name of the last call
    write_data,     \* data of the last call: a list of records
    write_result,   \* the value the last call returned: a file name or None
    writes,         \* how many calls have been made
    files_before,   \* the files of output_dir as the last call found them
    \* ---- clinical validator wizard (tcia-clinical-validator.py)
    step,           \* st.session_state.step
    session_df,     \* st.session_state.df
    invalid_found,  \* step 4: the <<column, value>> pairs classified invalid
    cleanup_report, \* step 4: the validation_report the cleaning returned
    str_keeps_na,   \* whether astype(str) of the installed pandas keeps a
                    \* missing cell missing, or turns it into the text 'nan'
    \* ---- one call of remap_helper.validate_dataframe
    val_df,         \* df
    val_entity,     \* schema_name
    val_result,     \* what the call returned: report and corrections
    \* ---- one call of remap_helper.get_closest_match
    match_value,    \* value
    match_choices,  \* choices
    match_result,   \* what the call returned: a vocabulary value or None
    \* ---- remapper load_resources (tcia-remapper.py), which reads the
    \* documents model_doc and props_doc when they are there
    docs_present,   \* which of the primary documents exist in resources/model
    legacy_pv_doc,  \* the legacy permissible-values document
    resources,      \* what load_resources returned
    \* ---- one call of get_prioritized_options (tcia-clinical-validator.py)
    opt_value,      \* value
    opt_options,    \* valid_options
    opt_n,          \* n_suggestions
    opt_result,     \* what the call returned: a list of options
    \* ---- the remapper's Streamlit session (tcia-remapper.py), one script
    \* run per user event
    session_state,  \* st.session_state: key -> value, for the keys that exist
    uploader,       \* the file held by the Phase 1 file_uploader widget
    run_error,      \* whether the last script run raised on a missing key
    phase2_run,     \* what Phase 2 split in the last script run, if it did
    confirmed_df,   \* the table shown when "Confirm Mapping" was last pressed
    last_event,     \* the user event that caused the last script run
    \* ---- the clinical validator's Streamlit session, steps 1 to 7
    wizard_state,   \* st.session_state: key -> value, widget keys included
    wizard_keeps_na,\* whether astype(str) of this pandas keeps a missing cell
    wizard_event    \* the user event that caused the last script run

applyVars == <<entity_df, df0, corrections, applied>>

phase2Vars == <<uploaded_data, column_mapping, metadata, ran, split_data,
                missing_links, validation, files, clicked>>

schemaVars == <<model_doc, props_doc, load_result>>

writeVars == <<write_entity, write_data, write_result, writes, files_before>>

clinicalVars == <<step, session_df, invalid_found, cleanup_report, str_keeps_na>>

validateVars == <<val_df, val_entity, val_result>>

matchVars == <<match_value, match_choices, match_result>>

resourceVars == <<docs_present, legacy_pv_doc, resources>>

\* the variables of the helpers and sessions modelled one call at a time
optionVars == <<opt_value, opt_options, opt_n, opt_result>>

sessionVars == <<session_state, uploader, run_error, phase2_run, confirmed_df,
                 last_event>>

\* the variables of the two Streamlit applications' sessions
wizardVars == <<wizard_state, wizard_keeps_na, wizard_event>>

appVars == <<sessionVars, wizardVars>>

restVars == <<resourceVars, optionVars, appVars>>

vars == <<applyVars, phase2Vars, schemaVars, writeVars, clinicalVars,
          validateVars, matchVars, restVars>>

(***************************************************************************)
(* Bounds                                                                  *)
(***************************************************************************)
MaxRows == 2
MaxApply == 2
MaxWrites == 2

(***************************************************************************)
(* Generic helpers                                                         *)
(***************************************************************************)
Range(s) == {s[i] : i \in 1..Len(s)}

\* the element of a one-element set
Only(S) == CHOOSE x \in S : TRUE

SeqsUpTo(S, n) == UNION {[1..k -> S] : k \in 0..n}

\* all partial maps from D to R, as functions on a subset of D
PartialMaps(D, R) == UNION {[K -> R] : K \in SUBSET D}

(***************************************************************************)
(* Texts: Python str as a sequence of one-character strings                *)
(***************************************************************************)
\* a missing cell: pandas NaN / None (pd.isna is true of it and of nothing else)
NaN == <<"NaN">>

IsNa(v) == v = NaN

\* Python None where a text is expected ("no key", "no match")
None == <<"None">>

UpperCase == <<"A", "B", "C", "D", "E", "F", "G", "H", "I", "J", "K", "L", "M",
               "N", "O", "P", "Q", "R", "S", "T", "U", "V", "W", "X", "Y", "Z">>

LowerCase == <<"a", "b", "c", "d", "e", "f", "g", "h", "i", "j", "k", "l", "m",
               "n", "o", "p", "q", "r", "s", "t", "u", "v", "w", "x", "y", "z">>

IndexIn(seq, c) == CHOOSE i \in 1..Len(seq) : seq[i] = c

\* str.lower(), one character
LowerChar(c) == IF c \in Range(UpperCase) THEN LowerCase[IndexIn(UpperCase, c)] ELSE c

\* str.lower()
Lower(s) == [i \in 1..Len(s) |-> LowerChar(s[i])]

\* ord(): the code point Python orders strings by
CodePoint(c) ==
    IF c \in Range(UpperCase) THEN 64 + IndexIn(UpperCase, c)
    ELSE IF c \in Range(LowerCase) THEN 96 + IndexIn(LowerCase, c)
    ELSE IF c = " " THEN 32
    ELSE IF c = ";" THEN 59
    ELSE IF c = "." THEN 46
    ELSE IF c = "_" THEN 95
    ELSE IF c = "'" THEN 39
    ELSE 0

\* a < b for Python str
RECURSIVE TextLess(_, _)
TextLess(a, b) ==
    IF b = <<>> THEN FALSE
    ELSE IF a = <<>> THEN TRUE
    ELSE IF CodePoint(Head(a)) # CodePoint(Head(b)) THEN CodePoint(Head(a)) < CodePoint(Head(b))
    ELSE TextLess(Tail(a), Tail(b))

RECURSIVE LStrip(_)
LStrip(s) == IF s # <<>> /\ Head(s) = " " THEN LStrip(Tail(s)) ELSE s

RECURSIVE RStrip(_)
RStrip(s) == IF s # <<>> /\ s[Len(s)] = " " THEN RStrip(SubSeq(s, 1, Len(s) - 1)) ELSE s

\* str.strip()
Strip(s) == RStrip(LStrip(s))

\* str.split(sep) for a one-character separator: the pieces between the
\* separators, empty pieces included ("".split(";") is [""])
RECURSIVE Split(_, _)
Split(s, sep) ==
    IF \E i \in 1..Len(s) : s[i] = sep
    THEN LET i == CHOOSE k \in 1..Len(s) : s[k] = sep /\ \A j \in 1..(k-1) : s[j] # sep
         IN  <<SubSeq(s, 1, i - 1)>> \o Split(SubSeq(s, i + 1, Len(s)), sep)
    ELSE <<s>>

\* sep.join(parts)
RECURSIVE Join(_, _)
Join(parts, sep) ==
    IF parts = <<>> THEN <<>>
    ELSE IF Len(parts) = 1 THEN parts[1]
    ELSE parts[1] \o <<sep>> \o Join(Tail(parts), sep)

\* str(value): a text is itself, a missing value prints as "nan"
Str(v) == IF IsNa(v) THEN <<"n", "a", "n">> ELSE v

(***************************************************************************)
(* Names and values used by the model, written out as texts                *)
(***************************************************************************)
N_Dataset == <<"D", "a", "t", "a", "s", "e", "t">>
N_Subject == <<"S", "u", "b", "j", "e", "c", "t">>
N_Diagnosis == <<"D", "i", "a", "g", "n", "o", "s", "i", "s">>
N_dataset_id == <<"d", "a", "t", "a", "s", "e", "t", "_", "i", "d">>
N_subject_id == <<"s", "u", "b", "j", "e", "c", "t", "_", "i", "d">>
N_sex_at_birth == <<"s", "e", "x", "_", "a", "t", "_", "b", "i", "r", "t", "h">>
N_race == <<"r", "a", "c", "e">>
N_primary_diagnosis == <<"p", "r", "i", "m", "a", "r", "y", "_", "d", "i", "a", "g", "n", "o", "s", "i", "s">>
N_of_Subject == <<"o", "f", "_", "S", "u", "b", "j", "e", "c", "t">>
N_of_Diagnosis == <<"o", "f", "_", "D", "i", "a", "g", "n", "o", "s", "i", "s">>
N_dataset_dataset_id == <<"d", "a", "t", "a", "s", "e", "t", ".", "d", "a", "t", "a", "s", "e", "t", "_", "i", "d">>
N_subject_subject_id == <<"s", "u", "b", "j", "e", "c", "t", ".", "s", "u", "b", "j", "e", "c", "t", "_", "i", "d">>
V_Male == <<"M", "a", "l", "e">>
V_male == <<"m", "a", "l", "e">>
V_Female == <<"F", "e", "m", "a", "l", "e">>
V_White == <<"W", "h", "i", "t", "e">>
V_Asian == <<"A", "s", "i", "a", "n">>
V_White_Asian == <<"W", "h", "i", "t", "e", ";", "A", "s", "i", "a", "n">>
V_Zzzz == <<"Z", "z", "z", "z">>
V_Glioma == <<"G", "l", "i", "o", "m", "a">>
V_Empty == <<>>
V_P1 == <<"P", "1">>
V_P2 == <<"P", "2">>
V_DS1 == <<"D", "S", "1">>
N_PatientID == <<"P", "a", "t", "i", "e", "n", "t", "I", "D">>
N_Val == <<"V", "a", "l">>
N_Missing == <<"M", "i", "s", "s", "i", "n", "g">>
N_Program == <<"P", "r", "o", "g", "r", "a", "m">>
N_Investigator == <<"I", "n", "v", "e", "s", "t", "i", "g", "a", "t", "o", "r">>
N_Related_Work == <<"R", "e", "l", "a", "t", "e", "d", "_", "W", "o", "r", "k">>
Ext_tsv == <<".", "t", "s", "v">>
N_dataset_short_name == <<"d", "a", "t", "a", "s", "e", "t", "_", "s", "h", "o", "r", "t", "_", "n", "a", "m", "e">>
N_note == <<"n", "o", "t", "e">>
V_x == <<"x">>
N_Unknown == <<"U", "n", "k", "n", "o", "w", "n">>
N_Case_ID == <<"C", "a", "s", "e", " ", "I", "D">>
N_Project_Short_Name == <<"P", "r", "o", "j", "e", "c", "t", " ", "S", "h", "o", "r", "t", " ", "N", "a", "m", "e">>
N_Race == <<"R", "a", "c", "e">>
N_Ethnicity == <<"E", "t", "h", "n", "i", "c", "i", "t", "y">>
N_Sex_at_Birth == <<"S", "e", "x", " ", "a", "t", " ", "B", "i", "r", "t", "h">>
N_Age_UOM == <<"A", "g", "e", " ", "U", "O", "M">>
V_white == <<"w", "h", "i", "t", "e">>
V_White_semi == <<"W", "h", "i", "t", "e", ";">>
V_Space == <<" ">>
V_nan == <<"n", "a", "n">>
V_C1 == <<"C", "1">>
V_Proj == <<"P", "r", "o", "j">>
N_Age_at_Diagnosis == <<"A", "g", "e", " ", "a", "t", " ", "D", "i", "a", "g", "n", "o", "s", "i", "s">>
N_Age_at_Enrollment == <<"A", "g", "e", " ", "a", "t", " ", "E", "n", "r", "o", "l", "l", "m", "e", "n", "t">>
N_Age_at_Surgery == <<"A", "g", "e", " ", "a", "t", " ", "S", "u", "r", "g", "e", "r", "y">>
N_Age_at_Earliest_Imaging == <<"A", "g", "e", " ", "a", "t", " ", "E", "a", "r", "l", "i", "e", "s", "t", " ", "I", "m", "a", "g", "i", "n", "g">>
V_Year == <<"Y", "e", "a", "r">>
K_step == <<"s", "t", "e", "p">>
K_project_short_name == <<"p", "r", "o", "j", "e", "c", "t", "_", "s", "h", "o", "r", "t", "_", "n", "a", "m", "e">>
K_age_uom == <<"a", "g", "e", "_", "u", "o", "m">>
K_other_sheets == <<"o", "t", "h", "e", "r", "_", "s", "h", "e", "e", "t", "s">>
K_df == <<"d", "f">>
K_columns_mapped == <<"c", "o", "l", "u", "m", "n", "s", "_", "m", "a", "p", "p", "e", "d">>
K_column_mapping == <<"c", "o", "l", "u", "m", "n", "_", "m", "a", "p", "p", "i", "n", "g">>
K_mapping_applied == <<"m", "a", "p", "p", "i", "n", "g", "_", "a", "p", "p", "l", "i", "e", "d">>
K_kept_values == <<"k", "e", "p", "t", "_", "v", "a", "l", "u", "e", "s">>
K_fix_column_states == <<"f", "i", "x", "_", "c", "o", "l", "u", "m", "n", "_", "s", "t", "a", "t", "e", "s">>
K_mapping_complete == <<"m", "a", "p", "p", "i", "n", "g", "_", "c", "o", "m", "p", "l", "e", "t", "e">>
K_value_mappings == <<"v", "a", "l", "u", "e", "_", "m", "a", "p", "p", "i", "n", "g", "s">>
K_primary_site_mapped == <<"p", "r", "i", "m", "a", "r", "y", "_", "s", "i", "t", "e", "_", "m", "a", "p", "p", "e", "d">>
K_primary_site_mappings == <<"p", "r", "i", "m", "a", "r", "y", "_", "s", "i", "t", "e", "_", "m", "a", "p", "p", "i", "n", "g", "s">>
K_primary_diagnosis_mapped == <<"p", "r", "i", "m", "a", "r", "y", "_", "d", "i", "a", "g", "n", "o", "s", "i", "s", "_", "m", "a", "p", "p", "e", "d">>
K_primary_diagnosis_mappings == <<"p", "r", "i", "m", "a", "r", "y", "_", "d", "i", "a", "g", "n", "o", "s", "i", "s", "_", "m", "a", "p", "p", "i", "n", "g", "s">>
K_applying_corrections == <<"a", "p", "p", "l", "y", "i", "n", "g", "_", "c", "o", "r", "r", "e", "c", "t", "i", "o", "n", "s">>
N_Primary_Site == <<"P", "r", "i", "m", "a", "r", "y", " ", "S", "i", "t", "e">>
N_Primary_Diagnosis == <<"P", "r", "i", "m", "a", "r", "y", " ", "D", "i", "a", "g", "n", "o", "s", "i", "s">>
N_case_id_lower == <<"c", "a", "s", "e", " ", "i", "d">>
Leave_unmodified == <<"L", "e", "a", "v", "e", " ", "u", "n", "m", "o", "d", "i", "f", "i", "e", "d">>
Delete_column == <<"D", "e", "l", "e", "t", "e", " ", "c", "o", "l", "u", "m", "n">>
V_Bad_Name == <<"P", "!">>
N_Sheet2 == <<"S", "h", "e", "e", "t", "2">>
V_year == <<"y", "e", "a", "r">>
V_ab == <<"a", "b">>
V_abx == <<"a", "b", "x">>
V_aby == <<"a", "b", "y">>
V_abcde == <<"a", "b", "c", "d", "e">>
V_abcxy == <<"a", "b", "c", "x", "y">>
V_abxyz == <<"a", "b", "x", "y", "z">>
V_Asian_White == <<"A", "s", "i", "a", "n", ";", "W", "h", "i", "t", "e">>

(***************************************************************************)
(* mdf_parser.transform_mdf_to_schema                                      *)
(*                                                                         *)
(* model: [Nodes: sequence of [name, Props], Relationships: sequence of    *)
(* [name, Ends: sequence of [Src, Dst]]] (YAML mappings keep their order). *)
(* props_defs: property name -> [Key, Req, HasEnum, Enum, Desc].  A YAML   *)
(* scalar is "true"/"false" for a boolean, "Yes"/"No"/"True" for a string  *)
(* token and "absent" for a key that is not there.                         *)
(***************************************************************************)
\* prop_definitions.get(prop_name, {}): a name without a definition reads
\* as the empty definition
EmptyDef == [Key |-> "absent", Req |-> "absent", HasEnum |-> FALSE, Enum |-> <<>>, Desc |-> "None"]

PropDef(prop_definitions, prop_name) ==
    IF prop_name \in DOMAIN prop_definitions THEN prop_definitions[prop_name] ELSE EmptyDef

\* first pass: the first property of the node whose Key is 'True', 'Yes' or
\* True; None when the node has no such property
NodeKey(node_info, prop_definitions) ==
    LET keyed == {i \in 1..Len(node_info.Props) :
                     PropDef(prop_definitions, node_info.Props[i]).Key \in {"True", "Yes", "true"}}
    IN  IF keyed = {} THEN None
        ELSE node_info.Props[CHOOSE i \in keyed : \A j \in keyed : i <= j]

NodeInfo(model, node_name) ==
    model.Nodes[CHOOSE i \in 1..Len(model.Nodes) : model.Nodes[i].name = node_name]

NodeNames(model) == {model.Nodes[i].name : i \in 1..Len(model.Nodes)}

\* node_keys.get(dst_node)
node_keys(model, prop_definitions, node_name) ==
    IF node_name \in NodeNames(model)
    THEN NodeKey(NodeInfo(model, node_name), prop_definitions)
    ELSE None

\* a mapping that would never mark a property as required
AlwaysOptional(req) == "O"

\* Map Req: 'Yes'/'No' to 'R'/'O' ("true" and "false" stand for the
\* booleans True and False, "absent" for a definition without Req)
req_status(req) == IF req = "Yes" \/ req = "true" THEN "R" ELSE "O"

\* the declared properties of a node, in the order the node lists them
DeclaredProps(node_info, prop_definitions) ==
    [i \in 1..Len(node_info.Props) |->
        [Property |-> node_info.Props[i],
         Description |-> PropDef(prop_definitions, node_info.Props[i]).Desc,
         Required_optional |-> req_status(PropDef(prop_definitions, node_info.Props[i]).Req)]]

\* a faulty linkage name: the destination's name is not lower-cased
LinkagePropNoLower(dst_node, dst_key) == dst_node \o <<".">> \o dst_key

\* linkage_prop = f"{dst_node.lower()}.{dst_key}"
LinkageProp(dst_node, dst_key) == Lower(dst_node) \o <<".">> \o dst_key

\* the relationship ends, flattened in the order the loops visit them
RECURSIVE AllEnds(_)
AllEnds(relationships) ==
    IF relationships = <<>> THEN <<>>
    ELSE Head(relationships).Ends \o AllEnds(Tail(relationships))

\* an injection that would not look for a property of the same name
InjectUnchecked(node_props, ends, node_name, model, prop_definitions) ==
    LET from_here == SelectSeq(ends, LAMBDA end :
                         /\ end.Src = node_name
                         /\ node_keys(model, prop_definitions, end.Dst) # None)
    IN  node_props \o
        [k \in 1..Len(from_here) |->
            [Property |-> LinkageProp(from_here[k].Dst,
                                      node_keys(model, prop_definitions, from_here[k].Dst)),
             Description |-> <<"Automatically injected linkage to ", from_here[k].Dst>>,
             Required_optional |-> "O"]]

\* Inject linkage properties based on Relationships: for every end whose
\* Src is this node and whose Dst has a key, append the linkage property
\* unless a property of that name is already in node_props
RECURSIVE InjectLinkage(_, _, _, _, _)
InjectLinkage(node_props, ends, node_name, model, prop_definitions) ==
    IF ends = <<>> THEN node_props
    ELSE LET end == Head(ends)
             dst_key == node_keys(model, prop_definitions, end.Dst)
             linkage_prop == LinkageProp(end.Dst, dst_key)
             added ==
                 IF /\ end.Src = node_name
                    /\ dst_key # None
                    /\ \A i \in 1..Len(node_props) : node_props[i].Property # linkage_prop
                 THEN Append(node_props,
                             [Property |-> linkage_prop,
                              Description |-> <<"Automatically injected linkage to ", end.Dst>>,
                              Required_optional |-> "O"])
                 ELSE node_props
         IN  InjectLinkage(added, Tail(ends), node_name, model, prop_definitions)

\* schema[node_name] for every node of the model
transform_schema(model, prop_definitions) ==
    [n \in NodeNames(model) |->
        InjectLinkage(DeclaredProps(NodeInfo(model, n), prop_definitions),
                      AllEnds(model.Relationships), n, model, prop_definitions)]

\* permissible_values[prop_name] for every property of a node that carries
\* an Enum (the values only; code, definition and origin are display data)
transform_permissible_values(model, prop_definitions) ==
    LET used == UNION {Range(model.Nodes[i].Props) : i \in 1..Len(model.Nodes)}
    IN  [p \in {q \in used : PropDef(prop_definitions, q).HasEnum} |->
            PropDef(prop_definitions, p).Enum]

\* return schema, permissible_values, relationships
transform_mdf_to_schema(model, prop_definitions) ==
    [schema |-> transform_schema(model, prop_definitions),
     permissible_values |-> transform_permissible_values(model, prop_definitions),
     relationships |-> model.Relationships]

\* the names of the properties of an entity: [p['Property'] for p in
\* schema.get(entity_name, [])]
SchemaProps(schema, entity_name) ==
    IF entity_name \in DOMAIN schema
    THEN [i \in 1..Len(schema[entity_name]) |-> schema[entity_name][i].Property]
    ELSE <<>>

(***************************************************************************)
(* The submission model the remapper loads (resources/model/*.yml), cut    *)
(* down to three nodes and two relationships                               *)
(***************************************************************************)
MdfModel ==
    [Nodes |-> << [name |-> N_Dataset, Props |-> <<N_dataset_id>>],
                  [name |-> N_Subject, Props |-> <<N_subject_id, N_sex_at_birth, N_race>>],
                  [name |-> N_Diagnosis, Props |-> <<N_primary_diagnosis>>] >>,
     Relationships |->
               << [name |-> N_of_Subject, Ends |-> <<[Src |-> N_Subject, Dst |-> N_Dataset]>>],
                  [name |-> N_of_Diagnosis, Ends |-> <<[Src |-> N_Diagnosis, Dst |-> N_Subject]>>] >>]

MdfPropDefinitions ==
    (N_dataset_id :> [Key |-> "true", Req |-> "true", HasEnum |-> FALSE, Enum |-> <<>>, Desc |-> "id"])
 @@ (N_subject_id :> [Key |-> "true", Req |-> "Yes", HasEnum |-> FALSE, Enum |-> <<>>, Desc |-> "id"])
 @@ (N_sex_at_birth :> [Key |-> "absent", Req |-> "No", HasEnum |-> TRUE,
                        Enum |-> <<V_Male, V_Female>>, Desc |-> "sex"])
 @@ (N_race :> [Key |-> "absent", Req |-> "false", HasEnum |-> TRUE,
                Enum |-> <<V_White, V_Asian>>, Desc |-> "race"])
 @@ (N_primary_diagnosis :> [Key |-> "absent", Req |-> "Yes", HasEnum |-> TRUE,
                             Enum |-> <<V_Glioma>>, Desc |-> "diagnosis"])

\* schema, permissible_values, relationships = load_resources()
schema == transform_schema(MdfModel, MdfPropDefinitions)
permissible_values == transform_permissible_values(MdfModel, MdfPropDefinitions)
relationships == MdfModel.Relationships

(***************************************************************************)
(* difflib.SequenceMatcher and get_closest_match                           *)
(***************************************************************************)
\* cutoff=0.6, as the fraction CutoffNum / CutoffDen
CutoffNum == 6
CutoffDen == 10

\* length of the common run of a and b that starts at a[i], b[j] and stays
\* below ahi, bhi (exclusive)
RECURSIVE RunLen(_, _, _, _, _, _)
RunLen(a, b, i, j, ahi, bhi) ==
    IF i < ahi /\ j < bhi /\ a[i] = b[j] THEN 1 + RunLen(a, b, i + 1, j + 1, ahi, bhi) ELSE 0

\* SequenceMatcher.find_longest_match(alo, ahi, blo, bhi): the longest
\* matching block <<i, j, size>>, the one starting earliest in a, then
\* earliest in b (no junk: isjunk is None and autojunk needs 200 elements)
BetterBlock(t, u) ==
    \/ t[3] > u[3]
    \/ t[3] = u[3] /\ t[1] < u[1]
    \/ t[3] = u[3] /\ t[1] = u[1] /\ t[2] <= u[2]

find_longest_match(a, b, alo, ahi, blo, bhi) ==
    Only({IF \A t \in runs : t[3] = 0 THEN <<alo, blo, 0>>
          ELSE CHOOSE t \in runs : \A u \in runs : BetterBlock(t, u) :
          runs \in {{<<i, j, RunLen(a, b, i, j, ahi, bhi)>> :
                        i \in alo..(ahi - 1), j \in blo..(bhi - 1)}}})

\* SequenceMatcher.get_matching_blocks(), summed: the number of matched
\* elements, taking the longest block and recursing to its left and right
RECURSIVE Matches(_, _, _, _, _, _)
Matches(a, b, alo, ahi, blo, bhi) ==
    Only({IF m[3] = 0 THEN 0
          ELSE m[3]
               + (IF alo < m[1] /\ blo < m[2] THEN Matches(a, b, alo, m[1], blo, m[2]) ELSE 0)
               + (IF m[1] + m[3] < ahi /\ m[2] + m[3] < bhi
                  THEN Matches(a, b, m[1] + m[3], ahi, m[2] + m[3], bhi) ELSE 0) :
          m \in {find_longest_match(a, b, alo, ahi, blo, bhi)}})

\* SequenceMatcher.ratio() = 2.0 * matches / (len(a) + len(b)), as the
\* fraction <<numerator, denominator>>; 1.0 when both are empty
Ratio(a, b) ==
    IF Len(a) + Len(b) = 0 THEN <<1, 1>>
    ELSE <<2 * Matches(a, b, 1, Len(a) + 1, 1, Len(b) + 1), Len(a) + Len(b)>>

\* a comparison that would leave out a ratio equal to the cutoff
RatioGt(r, num, den) == r[1] * den > num * r[2]

\* s.ratio() >= cutoff
RatioGeq(r, num, den) == r[1] * den >= num * r[2]

\* (score1, x1) < (score2, x2) as Python orders tuples
ScoredLess(r1, x1, r2, x2) ==
    \/ r1[1] * r2[2] < r2[1] * r1[2]
    \/ r1[1] * r2[2] = r2[1] * r1[2] /\ TextLess(x1, x2)

\* difflib.get_close_matches(word, possibilities, n=1, cutoff): seq1 is the
\* possibility and seq2 the word; the kept (ratio, x) pairs go through
\* heapq.nlargest(1, ...), that is the greatest pair as Python orders tuples.
\* The result is <<>> or a one-element list.
get_close_matches(word, possibilities) ==
    Only({LET kept == {sx \in scored : RatioGeq(sx[1], CutoffNum, CutoffDen)}
          IN  IF kept = {} THEN <<>>
              ELSE <<(CHOOSE sx \in kept :
                         \A sy \in kept : ~ScoredLess(sx[1], sx[2], sy[1], sy[2]))[2]>> :
          scored \in {{<<Ratio(possibilities[i], word), possibilities[i]>> :
                          i \in 1..Len(possibilities)}}})

\* remap_helper.get_closest_match(value, choices): None for an empty or
\* missing value, else the best close match of str(value), or None
get_closest_match(value, choices) ==
    IF value = <<>> \/ IsNa(value) THEN None
    ELSE LET matches == get_close_matches(Str(value), choices)
         IN  IF matches # <<>> THEN matches[1] ELSE None

(***************************************************************************)
(* Tables: a pandas DataFrame is [columns, rows], the column names in      *)
(* order and the rows in order, each row a function from the column names  *)
(* to cells                                                                *)
(***************************************************************************)
\* the distinct elements of a sequence in order of first appearance
\* (Series.unique(), DataFrame.drop_duplicates(): the first of equals stays)
RECURSIVE KeepFirst(_)
KeepFirst(seq) ==
    IF seq = <<>> THEN <<>>
    ELSE LET init == KeepFirst(SubSeq(seq, 1, Len(seq) - 1))
             last == seq[Len(seq)]
         IN  IF last \in Range(init) THEN init ELSE Append(init, last)

\* a faulty drop_duplicates: nothing is dropped
KeepAll(seq) == seq

\* new_df.drop_duplicates()
drop_duplicates(rows) == KeepFirst(rows)

\* the values of a column row by row, repeated values kept
AllValues(df, col) == [i \in 1..Len(df.rows) |-> df.rows[i][col]]

\* df[col].unique()
Unique(df, col) == KeepFirst([i \in 1..Len(df.rows) |-> df.rows[i][col]])

\* DataFrame.empty: no columns or no rows
IsEmptyFrame(df) == df.columns = <<>> \/ df.rows = <<>>

RECURSIVE SelectSeq2(_, _)
SelectSeq2(seq, S) ==
    IF seq = <<>> THEN <<>>
    ELSE IF Head(seq) \in S THEN <<Head(seq)>> \o SelectSeq2(Tail(seq), S)
    ELSE SelectSeq2(Tail(seq), S)

(***************************************************************************)
(* remap_helper.split_data_by_schema                                       *)
(***************************************************************************)
\* f"{sheet_name}.{prop}"
Dotted(sheet_name, prop) == sheet_name \o <<".">> \o prop

\* Check both formats: "property" and "Entity.property"; the bare key is
\* looked up first and the dotted key only when there is no bare key
SourceCol(sheet_name, prop, mapping) ==
    IF prop \in DOMAIN mapping THEN mapping[prop]
    ELSE IF Dotted(sheet_name, prop) \in DOMAIN mapping
         THEN mapping[Dotted(sheet_name, prop)]
    ELSE None

\* if source_col and source_col in df.columns
IsMapped(df, sheet_name, prop, mapping) ==
    LET source_col == SourceCol(sheet_name, prop, mapping)
    IN  source_col # None /\ source_col # <<>> /\ source_col \in Range(df.columns)

\* new_df after the loop over target_cols: one column per mapped property,
\* in schema order, each row holding the cells of the source columns
NewDf(df, sheet_name, mapping, sch) ==
    LET target_cols == SchemaProps(sch, sheet_name)
        mapped == KeepFirst(SelectSeq2(target_cols,
                      {q \in Range(target_cols) : IsMapped(df, sheet_name, q, mapping)}))
    IN  [columns |-> mapped,
         rows |-> [i \in 1..Len(df.rows) |->
                      [q \in Range(mapped) |->
                          df.rows[i][SourceCol(sheet_name, q, mapping)]]]]

\* results: entity -> deduplicated table, for the entities whose new_df is
\* not empty
split_data_by_schema(df, mapping, sch) ==
    [e \in {n \in DOMAIN sch : ~IsEmptyFrame(NewDf(df, n, mapping, sch))} |->
        [columns |-> NewDf(df, e, mapping, sch).columns,
         rows |-> drop_duplicates(NewDf(df, e, mapping, sch).rows)]]

(***************************************************************************)
(* remap_helper.validate_dataframe                                         *)
(***************************************************************************)
\* a faulty membership test: nothing is taken for a vocabulary member
InNoSet(val, choices) == FALSE

\* val in valid_set: set membership, an exact comparison
InValidSet(val, choices) == val \in Range(choices)

\* if pd.isna(val) or str(val).strip() == "": continue
IsBlank(val) == IsNa(val) \/ Strip(Str(val)) = <<>>

\* invalid_values of one column: the distinct values, in order of first
\* appearance, that are neither blank nor in the valid set
InvalidValues(df, col, choices) ==
    LET u == Unique(df, col)
    IN  SelectSeq2(u, {v \in Range(u) : ~IsBlank(v) /\ ~InValidSet(v, choices)})

\* get_closest_match(val, choices) as validate_dataframe calls it; the
\* matches of the cell values and vocabularies of the model are computed
\* once and looked up
KnownCells == {V_Male, V_male, V_Female, V_White, V_Asian, V_White_Asian, V_Zzzz, V_Glioma,
               V_P1, V_P2, V_DS1, V_Empty, NaN}

KnownChoices == {permissible_values[p] : p \in DOMAIN permissible_values}

ClosestMatchTable ==
    [choices \in KnownChoices |-> [val \in KnownCells |-> get_closest_match(val, choices)]]

ClosestMatch(val, choices) ==
    IF val \in KnownCells /\ choices \in KnownChoices
    THEN ClosestMatchTable[choices][val]
    ELSE get_closest_match(val, choices)

\* the report lines of one column: one line per invalid value, naming the
\* suggestion, or None for "No close match found."
ColumnReport(col, invalid_values, choices) ==
    [i \in 1..Len(invalid_values) |->
        LET match == ClosestMatch(invalid_values[i], choices)
        IN  [col |-> col, val |-> invalid_values[i],
             suggestion |-> IF match # None /\ match # <<>> THEN match ELSE None]]

\* a col_corrections that would record nothing
NoCorrections(col_report) == <<>>

\* col_corrections: invalid value -> suggestion, for the values with a match
ColumnCorrections(col_report) ==
    [v \in {col_report[i].val : i \in {j \in 1..Len(col_report) : col_report[j].suggestion # None}} |->
        col_report[CHOOSE i \in 1..Len(col_report) : col_report[i].val = v].suggestion]

\* a choice of columns that would ignore what the entity declares
VocabularyColumns(df, schema_name, sch, pv) == SelectSeq2(df.columns, DOMAIN pv)

\* the columns validate_dataframe checks: declared for the entity and keyed
\* in permissible_values, in table order
CheckedColumns(df, schema_name, sch, pv) ==
    SelectSeq2(df.columns, Range(SchemaProps(sch, schema_name)) \cap DOMAIN pv)

RECURSIVE ConcatReports(_, _, _)
ConcatReports(df, cols, pv) ==
    IF cols = <<>> THEN <<>>
    ELSE ColumnReport(Head(cols), InvalidValues(df, Head(cols), pv[Head(cols)]), pv[Head(cols)])
             \o ConcatReports(df, Tail(cols), pv)

\* returns report, corrections
validate_dataframe(df, schema_name, sch, pv) ==
    LET cols == CheckedColumns(df, schema_name, sch, pv)
        col_report(c) == ColumnReport(c, InvalidValues(df, c, pv[c]), pv[c])
    IN  [report |-> ConcatReports(df, cols, pv),
         corrections |->
             [c \in {x \in Range(cols) : DOMAIN ColumnCorrections(col_report(x)) # {}} |->
                 ColumnCorrections(col_report(c))]]

(***************************************************************************)
(* remap_helper.check_missing_links                                        *)
(***************************************************************************)
StartsWith(s, prefix) ==
    Len(prefix) <= Len(s) /\ SubSeq(s, 1, Len(prefix)) = prefix

\* the linkage property of an entity towards dst: the first declared
\* property that starts with f"{dst_lower}.", or None
LinkagePropOf(sch, entity_name, dst) ==
    LET props == SchemaProps(sch, entity_name)
        hits == {i \in 1..Len(props) : StartsWith(props[i], Lower(dst) \o <<".">>)}
    IN  IF hits = {} THEN None ELSE props[CHOOSE i \in hits : \A j \in hits : i <= j]

\* for every relationship end whose Src has a table: a MissingLink when the
\* linkage property towards Dst is not a column of that table
check_missing_links(tables, sch, rels) ==
    LET ends == AllEnds(rels)
        missing == {i \in 1..Len(ends) :
                       /\ ends[i].Src \in DOMAIN tables
                       /\ LinkagePropOf(sch, ends[i].Src, ends[i].Dst) # None
                       /\ LinkagePropOf(sch, ends[i].Src, ends[i].Dst)
                              \notin Range(tables[ends[i].Src].columns)}
        links == [i \in 1..Len(ends) |->
                     [entity |-> ends[i].Src, target_entity |-> ends[i].Dst,
                      property |-> LinkagePropOf(sch, ends[i].Src, ends[i].Dst)]]
    IN  SelectSeq2(links, {links[i] : i \in missing})

(***************************************************************************)
(* Applying a CorrectionMap                                                *)
(***************************************************************************)
\* pandas Series.replace(dict): every cell equal to a key gets that key's
\* value; the match is made against the cell as it was before the call, so
\* a replacement is not replaced again within one call.
Replace(cell, col_corrections) ==
    IF cell \in DOMAIN col_corrections THEN col_corrections[cell] ELSE cell

\* a faulty substitution: only the first matching row of a column is replaced
ApplyFirstOnly(df, corr) ==
    [i \in 1..Len(df) |->
        [c \in DOMAIN df[i] |->
            IF /\ c \in DOMAIN corr
               /\ df[i][c] \in DOMAIN corr[c]
               /\ \A j \in 1..(i-1) : df[j][c] \notin DOMAIN corr[c]
            THEN corr[c][df[i][c]]
            ELSE df[i][c]]]

\* for col, col_corrections in corrections.items():
\*     entity_df[col] = entity_df[col].replace(col_corrections)
ApplyCorrections(df, corr) ==
    [i \in 1..Len(df) |->
        [c \in DOMAIN df[i] |->
            IF c \in DOMAIN corr THEN Replace(df[i][c], corr[c]) ELSE df[i][c]]]

\* the columns and the cell values of the tables corrections are applied to
ApplyColumns == {"sex_at_birth", "race"}

ApplyValues(c) ==
    IF c = "sex_at_birth" THEN {"Male", "male", "M"} ELSE {"White", "white"}

ApplyRows == [sex_at_birth : ApplyValues("sex_at_birth"), race : ApplyValues("race")]

\* the maps of one column: old value -> a different new value
ApplyColumnMaps(c) ==
    {m \in PartialMaps(ApplyValues(c), ApplyValues(c)) : \A k \in DOMAIN m : m[k] # k}

ApplyMaps ==
    [sex_at_birth : ApplyColumnMaps("sex_at_birth"), race : ApplyColumnMaps("race")]

\* a CorrectionMap holds a column only when the column has a correction
\* (remap_helper.py: "if col_corrections: corrections[col] = col_corrections")
DropEmpty(m) == [c \in {x \in DOMAIN m : DOMAIN m[x] # {}} |-> m[c]]

EmptyFrame == [columns |-> <<>>, rows |-> <<>>]

ApplyIdle ==
    /\ entity_df = <<>>
    /\ df0 = <<>>
    /\ corrections = <<>>
    /\ applied = 0

Phase2Idle ==
    /\ uploaded_data = EmptyFrame
    /\ column_mapping = <<>>
    /\ metadata = <<>>
    /\ ran = FALSE
    /\ split_data = <<>>
    /\ missing_links = <<>>
    /\ validation = <<>>
    /\ files = <<>>
    /\ clicked = {}

\* the parts of the state a specification does not exercise stay as they are
\* before the part of the program they belong to has run
SchemaIdle ==
    /\ model_doc = <<>>
    /\ props_doc = <<>>
    /\ load_result = <<>>

WriteIdle ==
    /\ write_entity = <<>>
    /\ write_data = <<>>
    /\ write_result = <<>>
    /\ writes = 0
    /\ files_before = <<>>

\* report = []
NoReport == [capitalization |-> {}, duplicates |-> 0]

ClinicalIdle ==
    /\ step = 0
    /\ session_df = EmptyFrame
    /\ invalid_found = {}
    /\ cleanup_report = NoReport
    /\ str_keeps_na = FALSE

NotCalled == <<"not called">>

NotValidated == [called |-> FALSE]

ValidateIdle ==
    /\ val_df = EmptyFrame
    /\ val_entity = <<>>
    /\ val_result = NotValidated

MatchIdle ==
    /\ match_value = <<>>
    /\ match_choices = <<>>
    /\ match_result = NotCalled

NotLoadedResources == [called |-> FALSE]

ResourceIdle ==
    /\ docs_present = {}
    /\ legacy_pv_doc = <<>>
    /\ resources = NotLoadedResources

OptionsIdle ==
    /\ opt_value = <<>>
    /\ opt_options = <<>>
    /\ opt_n = 0
    /\ opt_result = NotCalled

NoUpload == [none |-> TRUE]

NotSplit == [split |-> FALSE]

SessionIdle ==
    /\ session_state = <<>>
    /\ uploader = NoUpload
    /\ run_error = FALSE
    /\ phase2_run = NotSplit
    /\ confirmed_df = NoUpload
    /\ last_event = "none"

WizardIdle ==
    /\ wizard_state = <<>>
    /\ wizard_keeps_na = FALSE
    /\ wizard_event = "none"

AppIdle ==
    /\ SessionIdle
    /\ WizardIdle

RestIdle ==
    /\ ResourceIdle
    /\ OptionsIdle
    /\ AppIdle

ApplyInit ==
    /\ entity_df \in SeqsUpTo(ApplyRows, MaxRows)
    /\ df0 = entity_df
    /\ corrections \in {DropEmpty(m) : m \in ApplyMaps}
    /\ applied = 0
    /\ Phase2Idle
    /\ SchemaIdle
    /\ WriteIdle
    /\ ClinicalIdle
    /\ ValidateIdle
    /\ MatchIdle
    /\ RestIdle

\* the "Apply Corrections" button: shown only when there are corrections
ApplyButton ==
    /\ DOMAIN corrections # {}
    /\ applied < MaxApply
    /\ entity_df' = ApplyCorrections(entity_df, corrections)
    /\ applied' = applied + 1
    /\ UNCHANGED <<df0, corrections>>
    /\ UNCHANGED <<phase2Vars, schemaVars, writeVars, clinicalVars, validateVars, matchVars, restVars>>

ApplyNext == ApplyButton

SpecApply == ApplyInit /\ [][ApplyNext]_vars

(***************************************************************************)
(* Remapper Phase 2: one run of the script with phase = 2                  *)
(***************************************************************************)
\* dst_meta[0].get(f"{dst_lower}_short_name") or dst_meta[0].get(f"{dst_lower}_id")
DictGet(d, k) == IF k \in DOMAIN d THEN d[k] ELSE None

LinkVal(dst_meta, dst) ==
    LET a == DictGet(dst_meta[1], Lower(dst) \o <<"_", "s", "h", "o", "r", "t", "_", "n", "a", "m", "e">>)
        b == DictGet(dst_meta[1], Lower(dst) \o <<"_", "i", "d">>)
    IN  IF a # None /\ a # <<>> THEN a ELSE b

\* entity_df[linkage_prop] = link_val: a new last column, the same in every row
AddColumn(df, col, val) ==
    [columns |-> Append(df.columns, col),
     rows |-> [i \in 1..Len(df.rows) |->
                  [c \in Range(df.columns) \cup {col} |->
                      IF c = col THEN val ELSE df.rows[i][c]]]]

\* Auto-populate linkages to Phase 0 entities based on relationships
RECURSIVE AutoPopulate(_, _, _, _)
AutoPopulate(entity_df_, entity_name, ends, md) ==
    IF ends = <<>> THEN entity_df_
    ELSE LET end == Head(ends)
             linkage_prop == LinkagePropOf(schema, entity_name, end.Dst)
             next ==
                 IF /\ end.Src = entity_name
                    /\ end.Dst \in DOMAIN md
                    /\ md[end.Dst] # <<>>
                    /\ LinkVal(md[end.Dst], end.Dst) \notin {None, <<>>}
                    /\ linkage_prop # None
                    /\ linkage_prop \notin Range(entity_df_.columns)
                 THEN AddColumn(entity_df_, linkage_prop, LinkVal(md[end.Dst], end.Dst))
                 ELSE entity_df_
         IN  AutoPopulate(next, entity_name, Tail(ends), md)

\* split_data as Phase 2 works on it: split, then linkages auto-populated
Phase2Split(df, cm, md) ==
    LET split == split_data_by_schema(df, cm, schema)
    IN  [e \in DOMAIN split |-> AutoPopulate(split[e], e, AllEnds(relationships), md)]

\* DataFrame.to_csv: a missing cell is written as the empty text
ToCsv(df) ==
    [columns |-> df.columns,
     rows |-> [i \in 1..Len(df.rows) |->
                  [c \in DOMAIN df.rows[i] |->
                      IF IsNa(df.rows[i][c]) THEN <<>> ELSE df.rows[i][c]]]]

\* f"{entity_name.lower()}.tsv"
FileName(entity_name) == Lower(entity_name) \o Ext_tsv

\* whether one run writes the file of entity e: when its report is empty,
\* or when it has corrections and its Apply button was pressed in this run
SavedInRun(e, val, button) ==
    \/ val[e].report = <<>>
    \/ val[e].corrections # <<>> /\ button = e

\* the table of entity e at the end of a run in which `button` was pressed
TableAfterRun(split, e, val, button) ==
    IF val[e].report # <<>> /\ val[e].corrections # <<>> /\ button = e
    THEN [columns |-> split[e].columns,
          rows |-> ApplyCorrections(split[e].rows, val[e].corrections)]
    ELSE split[e]

\* the output directory after the run: the files the run writes replace the
\* files of the same name (to_csv overwrites)
FilesAfterRun(old, split, val, button) ==
    LET written == {e \in DOMAIN split : SavedInRun(e, val, button)}
        names == {FileName(e) : e \in written}
    IN  [f \in DOMAIN old \cup names |->
            IF f \in names
            THEN ToCsv(TableAfterRun(split, CHOOSE e \in written : FileName(e) = f, val, button))
            ELSE old[f]]

\* one run of the Phase 2 branch; `button` is the entity whose Apply button
\* was pressed for this run, or None
Phase2Script(button) ==
    LET split == Phase2Split(uploaded_data, column_mapping, metadata)
        val == [e \in DOMAIN split |-> validate_dataframe(split[e], e, schema, permissible_values)]
    IN  /\ split_data' = [e \in DOMAIN split |-> TableAfterRun(split, e, val, button)]
        /\ missing_links' = check_missing_links(split, schema, relationships)
        /\ validation' = val
        /\ files' = FilesAfterRun(files, split, val, button)
        /\ ran' = TRUE

\* the script runs with no button pressed
Phase2Run ==
    /\ ~ran
    /\ Phase2Script(None)
    /\ UNCHANGED <<uploaded_data, column_mapping, metadata, clicked>>
    /\ UNCHANGED <<applyVars, schemaVars, writeVars, clinicalVars, validateVars, matchVars, restVars>>

\* "Apply Corrections to {entity_name}": offered by the last run only for an
\* entity with a report and with corrections
Phase2ClickApply(e) ==
    /\ ran
    /\ e \in DOMAIN validation
    /\ validation[e].report # <<>>
    /\ validation[e].corrections # <<>>
    /\ Phase2Script(e)
    /\ clicked' = clicked \cup {e}
    /\ UNCHANGED <<uploaded_data, column_mapping, metadata>>
    /\ UNCHANGED <<applyVars, schemaVars, writeVars, clinicalVars, validateVars, matchVars, restVars>>

\* uploaded tables: Phase 1 has stripped the texts and dropped the rows and
\* columns that are entirely missing
UploadRow(id, v) == (N_PatientID :> id) @@ (N_Val :> v)

UploadRows ==
    {UploadRow(id, v) : id \in {V_P1, V_P2},
                        v \in {V_Male, V_male, V_White_Asian, V_Zzzz, V_Empty, NaN}}

UploadTables ==
    {[columns |-> <<N_PatientID, N_Val>>, rows |-> r] : r \in SeqsUpTo(UploadRows, MaxRows)}

\* column mappings as Phase 1 confirms them: "Entity.property" -> source column
ConfirmedMappings ==
    { <<>>,
      (Dotted(N_Subject, N_subject_id) :> N_PatientID) @@ (Dotted(N_Subject, N_sex_at_birth) :> N_Val),
      (Dotted(N_Subject, N_subject_id) :> N_PatientID) @@ (Dotted(N_Subject, N_race) :> N_Val),
      (Dotted(N_Subject, N_sex_at_birth) :> N_Val),
      (Dotted(N_Subject, N_subject_id) :> N_PatientID) @@ (Dotted(N_Diagnosis, N_primary_diagnosis) :> N_Val),
      (Dotted(N_Subject, N_sex_at_birth) :> N_Val) @@ (Dotted(N_Diagnosis, N_primary_diagnosis) :> N_Val),
      (Dotted(N_Diagnosis, N_subject_subject_id) :> N_PatientID)
          @@ (Dotted(N_Diagnosis, N_primary_diagnosis) :> N_Val) }

\* Phase 0 metadata: the four lists, Dataset empty or holding one record
Phase0Metadata ==
    {(N_Program :> <<>>) @@ (N_Investigator :> <<>>) @@ (N_Related_Work :> <<>>) @@ (N_Dataset :> d) :
        d \in {<<>>, <<(N_dataset_short_name :> V_DS1)>>}}

Phase2Init ==
    /\ uploaded_data \in UploadTables
    /\ column_mapping \in ConfirmedMappings
    /\ metadata \in Phase0Metadata
    /\ ran = FALSE
    /\ split_data = <<>>
    /\ missing_links = <<>>
    /\ validation = <<>>
    /\ files = <<>>
    /\ clicked = {}
    /\ ApplyIdle
    /\ SchemaIdle
    /\ WriteIdle
    /\ ClinicalIdle
    /\ ValidateIdle
    /\ MatchIdle
    /\ RestIdle

Phase2Next == Phase2Run \/ \E e \in DOMAIN schema : Phase2ClickApply(e)

SpecPhase2 == Phase2Init /\ [][Phase2Next]_vars

(***************************************************************************)
(* split_data_by_schema called on a table and a mapping                    *)
(***************************************************************************)
\* source tables: two columns, up to MaxRows rows, rows possibly repeated,
\* a table with a header and no rows included
SplitRows == {UploadRow(id, v) : id \in {V_P1, V_P2}, v \in {V_Male, V_Female}}

SplitTables ==
    {[columns |-> <<N_PatientID, N_Val>>, rows |-> r] : r \in SeqsUpTo(SplitRows, MaxRows)}

\* column mappings in both key formats: bare "property", dotted
\* "Entity.property", both at once, and keys naming a column the table lacks
SplitMappings ==
    { <<>>,
      (N_sex_at_birth :> N_Val),
      (Dotted(N_Subject, N_sex_at_birth) :> N_Val),
      (N_subject_id :> N_PatientID) @@ (Dotted(N_Subject, N_sex_at_birth) :> N_Val),
      (N_sex_at_birth :> N_Missing),
      (N_sex_at_birth :> N_Missing) @@ (Dotted(N_Subject, N_sex_at_birth) :> N_Val),
      (N_sex_at_birth :> N_Val) @@ (Dotted(N_Subject, N_sex_at_birth) :> N_Missing),
      (Dotted(N_Subject, N_subject_id) :> N_PatientID)
          @@ (Dotted(N_Diagnosis, N_primary_diagnosis) :> N_Val),
      (N_dataset_id :> N_PatientID) @@ (N_primary_diagnosis :> N_Val) }

SplitInit ==
    /\ uploaded_data \in SplitTables
    /\ column_mapping \in SplitMappings
    /\ metadata = <<>>
    /\ ran = FALSE
    /\ split_data = <<>>
    /\ missing_links = <<>>
    /\ validation = <<>>
    /\ files = <<>>
    /\ clicked = {}
    /\ ApplyIdle
    /\ SchemaIdle
    /\ WriteIdle
    /\ ClinicalIdle
    /\ ValidateIdle
    /\ MatchIdle
    /\ RestIdle

\* results = split_data_by_schema(df, column_mapping, schema)
SplitCall ==
    /\ ~ran
    /\ split_data' = split_data_by_schema(uploaded_data, column_mapping, schema)
    /\ ran' = TRUE
    /\ UNCHANGED <<uploaded_data, column_mapping, metadata, missing_links, validation,
                   files, clicked>>
    /\ UNCHANGED <<applyVars, schemaVars, writeVars, clinicalVars, validateVars, matchVars, restVars>>

SplitNext == SplitCall

SpecSplit == SplitInit /\ [][SplitNext]_vars

(***************************************************************************)
(* Schema loading: transform_mdf_to_schema called on the parsed documents  *)
(***************************************************************************)
Restrict(f, K) == [k \in K \cap DOMAIN f |-> f[k]]

\* the remapper's model with a Subject that itself lists the linkage
\* property towards Dataset among its Props
MdfDeclaredLinkModel ==
    [Nodes |-> << [name |-> N_Dataset, Props |-> <<N_dataset_id>>],
                  [name |-> N_Subject,
                   Props |-> <<N_subject_id, N_dataset_dataset_id, N_sex_at_birth, N_race>>],
                  [name |-> N_Diagnosis, Props |-> <<N_primary_diagnosis>>] >>,
     Relationships |-> MdfModel.Relationships]

\* the remapper's model with a relationship that lists the end
\* Subject -> Dataset twice
MdfRepeatedEndModel ==
    [Nodes |-> MdfModel.Nodes,
     Relationships |->
         << [name |-> N_of_Subject, Ends |-> <<[Src |-> N_Subject, Dst |-> N_Dataset],
                                               [Src |-> N_Subject, Dst |-> N_Dataset]>>],
            [name |-> N_of_Diagnosis, Ends |-> <<[Src |-> N_Diagnosis, Dst |-> N_Subject]>>] >>]

\* model documents: the remapper's model, the same without relationships,
\* with a declared linkage property, and with a repeated end
SchemaModels ==
    {MdfModel, [Nodes |-> MdfModel.Nodes, Relationships |-> <<>>],
     MdfDeclaredLinkModel, MdfRepeatedEndModel}

\* property-definition documents: any part of the definitions, so that
\* nodes may list properties the document does not define
SchemaPropDocs ==
    {Restrict(MdfPropDefinitions, K) : K \in SUBSET DOMAIN MdfPropDefinitions}

\* load_result before the loader has been called
NotLoaded == <<>>

SchemaInit ==
    /\ model_doc \in SchemaModels
    /\ props_doc \in SchemaPropDocs
    /\ load_result = NotLoaded
    /\ ApplyIdle
    /\ Phase2Idle
    /\ WriteIdle
    /\ ClinicalIdle
    /\ ValidateIdle
    /\ MatchIdle
    /\ RestIdle

\* schema, permissible_values, relationships =
\*     transform_mdf_to_schema(model, props, terms)
\* the call returns for every pair of documents: no statement of the
\* function raises on a property name without a definition
LoadSchema ==
    /\ load_result = NotLoaded
    /\ load_result' = [status |-> "returned",
                       value |-> transform_mdf_to_schema(model_doc, props_doc)]
    /\ UNCHANGED <<model_doc, props_doc>>
    /\ UNCHANGED <<applyVars, phase2Vars, writeVars, clinicalVars, validateVars, matchVars, restVars>>

SchemaNext == LoadSchema

SpecSchema == SchemaInit /\ [][SchemaNext]_vars

(***************************************************************************)
(* remap_helper.write_metadata_tsv                                         *)
(*                                                                         *)
(* A Python dict is a sequence of <<key, value>> pairs with distinct keys, *)
(* in insertion order.  data is [kind, value]: kind "dict" for a single    *)
(* dict, "list" for a list of dicts.                                       *)
(***************************************************************************)
DictKeys(d) == [i \in 1..Len(d) |-> d[i][1]]

\* the value under key k, or a missing cell when the dict has no such key
DictLookup(d, k) ==
    IF \E i \in 1..Len(d) : d[i][1] = k
    THEN d[CHOOSE i \in 1..Len(d) : d[i][1] = k][2]
    ELSE NaN

RECURSIVE AllKeys(_)
AllKeys(data) ==
    IF data = <<>> THEN <<>> ELSE DictKeys(Head(data)) \o AllKeys(Tail(data))

\* if isinstance(data, dict): data = [data]
AsList(data) == IF data.kind = "dict" THEN <<data.value>> ELSE data.value

\* pd.DataFrame(data) for a list of dicts: one row per dict, the columns are
\* the keys in order of first appearance, a key a dict lacks is missing
DataFrameOf(data) ==
    LET cols == KeepFirst(AllKeys(data))
    IN  [columns |-> cols,
         rows |-> [i \in 1..Len(data) |-> [c \in Range(cols) |-> DictLookup(data[i], c)]]]

\* for prop in properties: if prop not in df.columns: df[prop] = None
EnsureColumns(df, properties) ==
    LET new == KeepFirst(SelectSeq2(properties, Range(properties) \ Range(df.columns)))
    IN  [columns |-> df.columns \o new,
         rows |-> [i \in 1..Len(df.rows) |->
                      [c \in Range(df.columns) \cup Range(new) |->
                          IF c \in Range(df.columns) THEN df.rows[i][c] ELSE NaN]]]

\* a faulty selection: the frame is written with the columns it has
SelectNothing(df, properties) == df

\* df = df[properties]
SelectColumns(df, properties) ==
    [columns |-> properties,
     rows |-> [i \in 1..Len(df.rows) |-> [c \in Range(properties) |-> df.rows[i][c]]]]

\* the frame write_metadata_tsv hands to to_csv
WrittenFrame(entity_name, data, sch) ==
    LET properties == SchemaProps(sch, entity_name)
    IN  SelectColumns(EnsureColumns(DataFrameOf(AsList(data)), properties), properties)

\* a writer that would name a file whatever the schema declares
WriteAlways(entity_name, data, sch) == FileName(entity_name)

\* the value write_metadata_tsv returns: None when the entity has no
\* declared property, else the path of the file (its name in output_dir)
write_metadata_tsv(entity_name, data, sch) ==
    IF SchemaProps(sch, entity_name) = <<>> THEN None ELSE FileName(entity_name)

\* records of a Subject: keys in another order than the schema's, missing
\* properties, a key the schema does not declare, no key at all
WriteRecords ==
    { <<<<N_sex_at_birth, V_Male>>, <<N_subject_id, V_P1>>>>,
      <<<<N_subject_id, V_P2>>>>,
      <<<<N_note, V_x>>, <<N_race, V_White>>>>,
      <<>> }

WriteLists ==
    {<<>>} \cup {<<r>> : r \in WriteRecords}
           \cup {<<r, q>> : r \in WriteRecords, q \in WriteRecords}

WriteDatas ==
    {[kind |-> "dict", value |-> r] : r \in WriteRecords}
        \cup {[kind |-> "list", value |-> l] : l \in WriteLists}

\* entity names: two declared ones with properties, one declared with no
\* property and one the schema does not have
WriteEntities == {N_Subject, N_Dataset, N_Program, N_Unknown}

\* the schema argument of the calls: the loaded schema, and a node the
\* model declares with an empty property list
WriteSchema ==
    [e \in DOMAIN schema \cup {N_Program} |->
        IF e = N_Program THEN <<>> ELSE schema[e]]

\* a to_csv that would add its rows to a file already there
AppendCsv(dir, name, frame) ==
    [f \in DOMAIN dir \cup {name} |->
        IF f # name THEN dir[f]
        ELSE IF name \in DOMAIN dir
             THEN [columns |-> dir[name].columns,
                   rows |-> dir[name].rows \o ToCsv(frame).rows]
             ELSE ToCsv(frame)]

\* df.to_csv(filepath, sep='\t', index=False) opens the file for writing:
\* a file of that name is replaced, every other file is left alone
to_csv(dir, name, frame) ==
    [f \in DOMAIN dir \cup {name} |-> IF f = name THEN ToCsv(frame) ELSE dir[f]]

WriteInit ==
    /\ WriteIdle
    /\ ApplyIdle
    /\ Phase2Idle
    /\ SchemaIdle
    /\ ClinicalIdle
    /\ ValidateIdle
    /\ MatchIdle
    /\ RestIdle

\* one call write_metadata_tsv(entity_name, data, schema, output_dir);
\* to_csv replaces a file of the same name
WriteMetadataTsv(entity_name, data) ==
    /\ writes < MaxWrites
    /\ write_entity' = entity_name
    /\ write_data' = data
    /\ write_result' = write_metadata_tsv(entity_name, data, WriteSchema)
    /\ files' = IF write_metadata_tsv(entity_name, data, WriteSchema) = None THEN files
                ELSE to_csv(files, FileName(entity_name),
                            WrittenFrame(entity_name, data, WriteSchema))
    /\ files_before' = files
    /\ writes' = writes + 1
    /\ UNCHANGED <<uploaded_data, column_mapping, metadata, ran, split_data,
                   missing_links, validation, clicked>>
    /\ UNCHANGED <<applyVars, schemaVars, clinicalVars, validateVars, matchVars, restVars>>

WriteNext == \E entity_name \in WriteEntities, data \in WriteDatas :
                 WriteMetadataTsv(entity_name, data)

SpecWrite == WriteInit /\ [][WriteNext]_vars

(***************************************************************************)
(* SpecLoad: load_resources of the remapper, on primary documents that are *)
(* there or not and a legacy permissible-values document                   *)
(***************************************************************************)
N_ethnicity == <<"e", "t", "h", "n", "i", "c", "i", "t", "y">>
V_Hispanic == <<"H", "i", "s", "p", "a", "n", "i", "c">>
V_Other == <<"O", "t", "h", "e", "r">>

\* the three primary documents get_mdf_resources looks for
PrimaryDocs == {"model", "properties", "terms"}

\* None, None, None
NoMdf == [schema |-> None, permissible_values |-> None, relationships |-> None]

\* get_mdf_resources(resource_dir): the documents are loaded and transformed
\* when all three paths exist
get_mdf_resources(present, model, prop_definitions) ==
    IF PrimaryDocs \subseteq present
    THEN transform_mdf_to_schema(model, prop_definitions)
    ELSE NoMdf

\* a merge that would let the legacy list win
LegacyFirst(legacy_pv, mdf_pv) ==
    [k \in DOMAIN legacy_pv \cup DOMAIN mdf_pv |->
        IF k \in DOMAIN legacy_pv THEN legacy_pv[k] ELSE mdf_pv[k]]

\* final_pv = legacy_pv.copy(); for k, v in mdf_pv.items(): final_pv[k] = v
\* (the loop is skipped when mdf_pv is empty)
MergeVocabularies(legacy_pv, mdf_pv) ==
    [k \in DOMAIN legacy_pv \cup DOMAIN mdf_pv |->
        IF k \in DOMAIN mdf_pv THEN mdf_pv[k] ELSE legacy_pv[k]]

\* load_json(SCHEMA_FILE): the legacy static schema
LegacySchema ==
    (N_Subject :> <<[Property |-> N_subject_id, Description |-> "legacy",
                     Required_optional |-> "R"]>>)

\* load_resources(): `if schema:` holds for a schema with at least one node;
\* else the warning is shown and the legacy documents are returned
load_resources(present, model, prop_definitions, legacy_pv) ==
    LET mdf == get_mdf_resources(present, model, prop_definitions)
    IN  IF mdf.schema # None /\ mdf.schema # <<>>
        THEN [called |-> TRUE, schema |-> mdf.schema,
              permissible_values |-> MergeVocabularies(legacy_pv, mdf.permissible_values),
              relationships |-> mdf.relationships, legacy_warning |-> FALSE]
        ELSE [called |-> TRUE, schema |-> LegacySchema,
              permissible_values |-> legacy_pv,
              relationships |-> <<>>, legacy_warning |-> TRUE]

\* model documents: the remapper's model and a document without nodes
LoadModels == {MdfModel, [Nodes |-> <<>>, Relationships |-> <<>>]}

\* property definitions: all of them, and the same without the vocabulary
\* of race
LoadPropDocs ==
    {MdfPropDefinitions, Restrict(MdfPropDefinitions, DOMAIN MdfPropDefinitions \ {N_race})}

\* legacy documents: empty, a list for race other than the model's, a list
\* for a property the model has no vocabulary for, and both
LegacyDocs ==
    {<<>>,
     (N_race :> <<V_White, V_Other>>),
     (N_ethnicity :> <<V_Hispanic>>),
     (N_race :> <<V_White, V_Other>>) @@ (N_ethnicity :> <<V_Hispanic>>)}

LoadInit ==
    /\ docs_present \in SUBSET PrimaryDocs
    /\ model_doc \in LoadModels
    /\ props_doc \in LoadPropDocs
    /\ load_result = NotLoaded
    /\ legacy_pv_doc \in LegacyDocs
    /\ resources = NotLoadedResources
    /\ OptionsIdle
    /\ AppIdle
    /\ ApplyIdle
    /\ Phase2Idle
    /\ WriteIdle
    /\ ClinicalIdle
    /\ ValidateIdle
    /\ MatchIdle

\* schema, permissible_values, relationships = load_resources()
LoadResources ==
    /\ resources = NotLoadedResources
    /\ resources' = load_resources(docs_present, model_doc, props_doc, legacy_pv_doc)
    /\ UNCHANGED <<docs_present, legacy_pv_doc>>
    /\ UNCHANGED <<applyVars, phase2Vars, schemaVars, writeVars, clinicalVars,
                   validateVars, matchVars, optionVars, appVars>>

LoadNext == LoadResources

SpecLoad == LoadInit /\ [][LoadNext]_vars

(***************************************************************************)
(* SpecOptions: one call of get_prioritized_options of the clinical        *)
(* validator on a value, an ordered vocabulary and n_suggestions           *)
(***************************************************************************)
V_ab_cd == <<"a", "b", " ", "c", "d">>
V_cd == <<"c", "d">>
V_A_dash_b == <<"A", "-", "b">>
V_cd_ab == <<"c", "d", " ", "a", "b">>
V_xy == <<"x", "y">>
Keep_current_value == <<"K", "e", "e", "p", " ", "c", "u", "r", "r", "e", "n", "t", " ", "v", "a", "l", "u", "e">>

Digits == {"0", "1", "2", "3", "4", "5", "6", "7", "8", "9"}

\* re.sub(r'[^a-z0-9\s]', '', str(s).lower())
clean_string(s) ==
    SelectSeq(Lower(Str(s)), LAMBDA c : c \in Range(LowerCase) \cup Digits \cup {" "})

\* str.split(): the words between runs of whitespace
Words(s) == SelectSeq(Split(s, " "), LAMBDA w : w # <<>>)

\* ''.join(word[0] for word in clean_string(x).split() if word)
Acronym(x) == [i \in 1..Len(Words(clean_string(x))) |-> Words(clean_string(x))[i][1]]

\* sum(1 for w1 in words_value for w2 in words_option
\*     if w2.startswith(w1) or w1.startswith(w2))
word_start_matches(words_value, words_option) ==
    Cardinality({p \in words_value \X words_option :
                    StartsWith(p[2], p[1]) \/ StartsWith(p[1], p[2])})

\* len(shared_words) / max(len(words_value), len(words_option)) if
\* words_value else 0, as the fraction <<numerator, denominator>>
word_match_score(words_value, words_option) ==
    IF words_value = {} THEN <<0, 1>>
    ELSE <<Cardinality(words_value \cap words_option),
           IF Cardinality(words_value) >= Cardinality(words_option)
           THEN Cardinality(words_value) ELSE Cardinality(words_option)>>

\* final_score = base_score * 0.4 + word_start_matches * 0.1
\*               + acronym_match * 0.2 + word_match_score * 0.3,
\* as the fraction <<numerator, denominator>>
get_similarity_score(value, option) ==
    Only({<<4 * q.base[1] * q.acr[2] * q.wms[2] + q.wsm * q.base[2] * q.acr[2] * q.wms[2]
               + 2 * q.acr[1] * q.base[2] * q.wms[2] + 3 * q.wms[1] * q.base[2] * q.acr[2],
            10 * q.base[2] * q.acr[2] * q.wms[2]>> :
          q \in {[base |-> Ratio(clean_string(value), clean_string(option)),
                  wsm |-> word_start_matches(Range(Words(clean_string(value))),
                                             Range(Words(clean_string(option)))),
                  acr |-> Ratio(Acronym(value), Acronym(option)),
                  wms |-> word_match_score(Range(Words(clean_string(value))),
                                           Range(Words(clean_string(option))))]}})

\* score r is smaller than score q
FracLess(r, q) == r[1] * q[2] < q[1] * r[2]

\* scored_options.sort(key=lambda x: x[1], reverse=True): a stable sort,
\* options of equal score keep the order the vocabulary lists them in
RECURSIVE SortDescending(_)
SortDescending(scored) ==
    IF scored = <<>> THEN <<>>
    ELSE LET best == CHOOSE i \in 1..Len(scored) :
                         /\ \A j \in 1..Len(scored) : ~FracLess(scored[i][2], scored[j][2])
                         /\ \A j \in 1..(i - 1) : FracLess(scored[j][2], scored[i][2])
         IN  <<scored[best]>>
                 \o SortDescending(SubSeq(scored, 1, best - 1)
                                       \o SubSeq(scored, best + 1, Len(scored)))

\* a selection that would drop the options after the n best
TopOnly(value, valid_options, n_suggestions) ==
    LET scored == SortDescending([i \in 1..Len(valid_options) |->
                      <<valid_options[i], get_similarity_score(value, valid_options[i])>>])
        cut == IF n_suggestions <= Len(scored) THEN n_suggestions ELSE Len(scored)
    IN  <<Keep_current_value>> \o [i \in 1..cut |-> scored[i][1]]

\* ['Keep current value'] + top_matches + remaining_options
get_prioritized_options(value, valid_options, n_suggestions) ==
    LET scored == SortDescending([i \in 1..Len(valid_options) |->
                      <<valid_options[i], get_similarity_score(value, valid_options[i])>>])
        cut == IF n_suggestions <= Len(scored) THEN n_suggestions ELSE Len(scored)
        top_matches == [i \in 1..cut |-> scored[i][1]]
        remaining_options == [i \in 1..(Len(scored) - cut) |-> scored[cut + i][1]]
    IN  <<Keep_current_value>> \o top_matches \o remaining_options

MaxOptions == 3

OptionValues == {V_ab, V_cd_ab, V_xy, <<>>}

OptionWords == {V_ab, V_ab_cd, V_cd, V_A_dash_b}

\* ordered vocabularies without a repeated value
OptionVocabularies ==
    {ch \in SeqsUpTo(OptionWords, MaxOptions) :
        \A i, j \in 1..Len(ch) : ch[i] = ch[j] => i = j}

\* n_suggestions: none, fewer than the vocabulary, the default
OptionCounts == {0, 1, 5}

OptionsInit ==
    /\ opt_value \in OptionValues
    /\ opt_options \in OptionVocabularies
    /\ opt_n \in OptionCounts
    /\ opt_result = NotCalled
    /\ ResourceIdle
    /\ AppIdle
    /\ ApplyIdle
    /\ Phase2Idle
    /\ SchemaIdle
    /\ WriteIdle
    /\ ClinicalIdle
    /\ ValidateIdle
    /\ MatchIdle

\* options = get_prioritized_options(value, valid_options, n_suggestions)
GetPrioritizedOptions ==
    /\ opt_result = NotCalled
    /\ opt_result' = get_prioritized_options(opt_value, opt_options, opt_n)
    /\ UNCHANGED <<opt_value, opt_options, opt_n>>
    /\ UNCHANGED <<applyVars, phase2Vars, schemaVars, writeVars, clinicalVars,
                   validateVars, matchVars, resourceVars, appVars>>

OptionsNext == GetPrioritizedOptions

SpecOptions == OptionsInit /\ [][OptionsNext]_vars

(***************************************************************************)
(* SpecValidate: one call of validate_dataframe on a table whose columns   *)
(* are declared or not, and keyed in permissible_values or not             *)
(***************************************************************************)
MaxValRows == 1

\* sex_at_birth: declared for Subject, with a vocabulary; subject_id:
\* declared for Subject, no vocabulary; note: declared nowhere, no
\* vocabulary; primary_diagnosis: a vocabulary, declared for Diagnosis only
ValidateColumns == <<N_sex_at_birth, N_subject_id, N_note, N_primary_diagnosis>>

ValidateCells == {V_Male, V_male, V_Zzzz}

ValidateRows == [Range(ValidateColumns) -> ValidateCells]

ValidateTables ==
    {[columns |-> ValidateColumns, rows |-> r] : r \in SeqsUpTo(ValidateRows, MaxValRows)}

ValidateEntities == {N_Subject, N_Diagnosis, N_Unknown}

ValidateInit ==
    /\ val_df \in ValidateTables
    /\ val_entity \in ValidateEntities
    /\ val_result = NotValidated
    /\ ApplyIdle
    /\ Phase2Idle
    /\ SchemaIdle
    /\ WriteIdle
    /\ ClinicalIdle
    /\ MatchIdle
    /\ RestIdle

\* report, corrections = validate_dataframe(df, schema_name, schema, permissible_values)
ValidateDataframe ==
    /\ val_result = NotValidated
    /\ val_result' = validate_dataframe(val_df, val_entity, schema, permissible_values)
    /\ UNCHANGED <<val_df, val_entity>>
    /\ UNCHANGED <<applyVars, phase2Vars, schemaVars, writeVars, clinicalVars, matchVars, restVars>>

ValidateNext == ValidateDataframe

SpecValidate == ValidateInit /\ [][ValidateNext]_vars

(***************************************************************************)
(* SpecMatch: one call of get_closest_match on a candidate and an ordered  *)
(* vocabulary                                                              *)
(***************************************************************************)
MaxChoices == 2

\* candidates: empty, missing, and texts that score above, at and below the
\* cutoff against the vocabulary words
MatchValues == {<<>>, NaN, V_ab, V_abcde, V_abx, V_male, V_Zzzz}

MatchWords == {V_abx, V_aby, V_abcxy, V_abxyz, V_Male, V_Female}

\* ordered vocabularies without a repeated word
MatchVocabularies ==
    {ch \in SeqsUpTo(MatchWords, MaxChoices) :
        \A i, j \in 1..Len(ch) : ch[i] = ch[j] => i = j}

MatchInit ==
    /\ match_value \in MatchValues
    /\ match_choices \in MatchVocabularies
    /\ match_result = NotCalled
    /\ ApplyIdle
    /\ Phase2Idle
    /\ SchemaIdle
    /\ WriteIdle
    /\ ClinicalIdle
    /\ ValidateIdle
    /\ RestIdle

\* match = get_closest_match(value, choices)
GetClosestMatch ==
    /\ match_result = NotCalled
    /\ match_result' = get_closest_match(match_value, match_choices)
    /\ UNCHANGED <<match_value, match_choices>>
    /\ UNCHANGED <<applyVars, phase2Vars, schemaVars, writeVars, clinicalVars, validateVars, restVars>>

MatchNext == GetClosestMatch

SpecMatch == MatchInit /\ [][MatchNext]_vars

(***************************************************************************)
(* The clinical validator (tcia-clinical-validator.py): vocabularies,      *)
(* cleaning, classification and the wizard's steps 1 to 4                  *)
(***************************************************************************)
permissible_race ==
    << <<"A", "m", "e", "r", "i", "c", "a", "n", " ", "I", "n", "d", "i", "a", "n", " ", "o", "r", " ", "A", "l", "a", "s", "k", "a", " ", "N", "a", "t", "i", "v", "e">>,
       <<"A", "s", "i", "a", "n">>,
       <<"B", "l", "a", "c", "k", " ", "o", "r", " ", "A", "f", "r", "i", "c", "a", "n", " ", "A", "m", "e", "r", "i", "c", "a", "n">>,
       <<"N", "a", "t", "i", "v", "e", " ", "H", "a", "w", "a", "i", "i", "a", "n", " ", "o", "r", " ", "O", "t", "h", "e", "r", " ", "P", "a", "c", "i", "f", "i", "c", " ", "I", "s", "l", "a", "n", "d", "e", "r">>,
       <<"N", "o", "t", " ", "A", "l", "l", "o", "w", "e", "d", " ", "T", "o", " ", "C", "o", "l", "l", "e", "c", "t">>,
       <<"N", "o", "t", " ", "R", "e", "p", "o", "r", "t", "e", "d">>,
       <<"U", "n", "k", "n", "o", "w", "n">>,
       <<"W", "h", "i", "t", "e">> >>

permissible_ethnicity ==
    << <<"H", "i", "s", "p", "a", "n", "i", "c", " ", "o", "r", " ", "L", "a", "t", "i", "n", "o">>,
       <<"N", "o", "t", " ", "A", "l", "l", "o", "w", "e", "d", " ", "T", "o", " ", "C", "o", "l", "l", "e", "c", "t">>,
       <<"N", "o", "t", " ", "H", "i", "s", "p", "a", "n", "i", "c", " ", "o", "r", " ", "L", "a", "t", "i", "n", "o">>,
       <<"N", "o", "t", " ", "R", "e", "p", "o", "r", "t", "e", "d">>,
       <<"U", "n", "k", "n", "o", "w", "n">> >>

permissible_sex_at_birth ==
    << <<"D", "o", "n", "'", "t", " ", "k", "n", "o", "w">>,
       <<"F", "e", "m", "a", "l", "e">>,
       <<"I", "n", "t", "e", "r", "s", "e", "x">>,
       <<"M", "a", "l", "e">>,
       <<"N", "o", "n", "e", " ", "o", "f", " ", "t", "h", "e", "s", "e", " ", "d", "e", "s", "c", "r", "i", "b", "e", " ", "m", "e">>,
       <<"P", "r", "e", "f", "e", "r", " ", "n", "o", "t", " ", "t", "o", " ", "a", "n", "s", "w", "e", "r">>,
       <<"U", "n", "k", "n", "o", "w", "n">> >>

permissible_age_uom ==
    << <<"D", "a", "y">>,
       <<"M", "o", "n", "t", "h">>,
       <<"Y", "e", "a", "r">> >>

age_columns ==
    {N_Age_at_Diagnosis, N_Age_at_Enrollment, N_Age_at_Surgery, N_Age_at_Earliest_Imaging}

\* a table with one column rewritten cell by cell
SetColumn(df, col, new_cells) ==
    [columns |-> df.columns,
     rows |-> [i \in 1..Len(df.rows) |->
                  [c \in DOMAIN df.rows[i] |->
                      IF c = col THEN new_cells[i] ELSE df.rows[i][c]]]]

\* Series.astype(str) of one cell: a text is itself; a missing cell becomes
\* the text 'nan', or stays missing where the string dtype keeps missing values
AsTypeStr(v, keeps_na) ==
    IF IsNa(v) THEN (IF keeps_na THEN NaN ELSE Str(NaN)) ELSE v

\* convert non-age columns to strings
convert_to_strings(df, keeps_na) ==
    [columns |-> df.columns,
     rows |-> [i \in 1..Len(df.rows) |->
                  [c \in DOMAIN df.rows[i] |->
                      IF c \notin age_columns THEN AsTypeStr(df.rows[i][c], keeps_na)
                      ELSE df.rows[i][c]]]]

\* lower_valid = {v.lower(): v for v in valid_values} (a later value with
\* the same lower-cased text replaces an earlier one);
\* return lower_valid.get(str(value).lower())
get_correct_value(value, valid_values) ==
    LET hits == {i \in 1..Len(valid_values) : Lower(valid_values[i]) = Lower(Str(value))}
    IN  IF hits = {} THEN None
        ELSE valid_values[CHOOSE i \in hits : \A j \in hits : j <= i]

\* sorted(set_of_texts)
RECURSIVE SortTexts(_)
SortTexts(S) ==
    IF S = {} THEN <<>>
    ELSE LET least == CHOOSE x \in S : \A y \in S : ~TextLess(y, x)
         IN  <<least>> \o SortTexts(S \ {least})

\* correct_race if correct_race else race
FixedOrSame(val, valid_values) ==
    Only({IF correct # None /\ correct # <<>> THEN correct ELSE val :
          correct \in {get_correct_value(val, valid_values)}})

\* fix_race_values(race_str)
fix_race_values(race_str) ==
    IF IsNa(race_str) THEN race_str
    ELSE Join(SortTexts({FixedOrSame(Strip(race), permissible_race) :
                            race \in Range(Split(Str(race_str), ";"))}), ";")

\* fix_value(val)
fix_value(val, valid_values) ==
    IF IsNa(val) THEN val ELSE FixedOrSame(val, valid_values)

\* df[col] = df[col].apply(fix_value) for Ethnicity and Sex at Birth
FixColumn(df, col, valid_values) ==
    IF col \in Range(df.columns)
    THEN SetColumn(df, col, [i \in 1..Len(df.rows) |-> fix_value(df.rows[i][col], valid_values)])
    ELSE df

FixRace(df) ==
    IF N_Race \in Range(df.columns)
    THEN SetColumn(df, N_Race, [i \in 1..Len(df.rows) |-> fix_race_values(df.rows[i][N_Race])])
    ELSE df

\* validate_and_clean_data(df): the cleaned table (the report lists the
\* capitalization fixes and the dropped rows for display)
validate_and_clean_data(df, keeps_na) ==
    LET fixed == FixColumn(FixColumn(FixRace(convert_to_strings(df, keeps_na)),
                                     N_Ethnicity, permissible_ethnicity),
                           N_Sex_at_Birth, permissible_sex_at_birth)
    IN  [columns |-> fixed.columns, rows |-> drop_duplicates(fixed.rows)]

\* capitalization_fixes['Race']: the (race, correct_race) pairs of the
\* trimmed tokens that have a correct value other than themselves
RaceFixes(df) ==
    IF N_Race \notin Range(df.columns) THEN {}
    ELSE UNION {{<<N_Race, Strip(race), get_correct_value(Strip(race), permissible_race)>> :
                    race \in {t \in Range(Split(Str(df.rows[i][N_Race]), ";")) :
                                 /\ get_correct_value(Strip(t), permissible_race) # None
                                 /\ get_correct_value(Strip(t), permissible_race) # Strip(t)}} :
                i \in {k \in 1..Len(df.rows) : ~IsNa(df.rows[k][N_Race])}}

\* capitalization_fixes[col] for Ethnicity and Sex at Birth: the
\* (val, correct_val) pairs of the values that have a correct value other
\* than themselves
ValueFixes(df, col, valid_values) ==
    IF col \notin Range(df.columns) THEN {}
    ELSE {<<col, df.rows[i][col], get_correct_value(df.rows[i][col], valid_values)>> :
             i \in {k \in 1..Len(df.rows) :
                       /\ ~IsNa(df.rows[k][col])
                       /\ get_correct_value(df.rows[k][col], valid_values) # None
                       /\ get_correct_value(df.rows[k][col], valid_values) # df.rows[k][col]}}

\* capitalization_fixes of validate_and_clean_data, as <<column, old, new>>
capitalization_fixes(df) ==
    RaceFixes(df) \cup ValueFixes(df, N_Ethnicity, permissible_ethnicity)
                  \cup ValueFixes(df, N_Sex_at_Birth, permissible_sex_at_birth)

\* the report validate_and_clean_data returns: the unique capitalization
\* fixes and the number of duplicate rows removed
validation_report(df, keeps_na) ==
    LET converted == convert_to_strings(df, keeps_na)
        fixed == FixColumn(FixColumn(FixRace(converted), N_Ethnicity, permissible_ethnicity),
                           N_Sex_at_Birth, permissible_sex_at_birth)
    IN  [capitalization |-> capitalization_fixes(converted),
         duplicates |-> Len(fixed.rows) - Len(drop_duplicates(fixed.rows))]

\* is_valid(value) of validate_categorical_column(df, column, valid_values)
is_valid(value, column, valid_values) ==
    IF IsNa(value) THEN TRUE
    ELSE IF column = N_Race
         THEN \A race \in Range(Split(Str(value), ";")) :
                  get_correct_value(Strip(race), valid_values) # None
    ELSE get_correct_value(value, valid_values) # None

\* df[~validate_categorical_column(df, column, valid_values)][column].unique(),
\* as <<column, value>> pairs; nothing for a column the table lacks
InvalidIn(df, column, valid_values) ==
    IF column \in Range(df.columns)
    THEN {<<column, df.rows[i][column]>> :
             i \in {k \in 1..Len(df.rows) : ~is_valid(df.rows[k][column], column, valid_values)}}
    ELSE {}

\* step 4, parts 1 and 2: Race, then the other categorical columns
Step4Invalid(df) ==
    InvalidIn(df, N_Race, permissible_race)
        \cup InvalidIn(df, N_Ethnicity, permissible_ethnicity)
        \cup InvalidIn(df, N_Sex_at_Birth, permissible_sex_at_birth)
        \cup InvalidIn(df, N_Age_UOM, permissible_age_uom)

\* step 4 widgets: what the user has selected for an invalid value.  The
\* Race multiselect starts with nothing selected (the empty text here); a
\* selectbox always holds one of the permissible values, the first by default
WidgetOptions(column) ==
    IF column = N_Race THEN {<<>>, V_White}
    ELSE IF column = N_Ethnicity THEN {permissible_ethnicity[1]}
    ELSE IF column = N_Sex_at_Birth THEN {permissible_sex_at_birth[1], V_Male}
    ELSE {permissible_age_uom[1]}

WidgetChoices(invalid) ==
    {ch \in [invalid -> UNION {WidgetOptions(p[1]) : p \in invalid}] :
        \A p \in invalid : ch[p] \in WidgetOptions(p[1])}

\* all_corrections: column -> (invalid value -> selected value), holding a
\* value only when something is selected for it and a column only when it
\* has a value
all_corrections(invalid, choice) ==
    LET chosen == {p \in invalid : choice[p] # <<>>}
    IN  [c \in {p[1] : p \in chosen} |->
            [v \in {p[2] : p \in {q \in chosen : q[1] = c}} |-> choice[<<c, v>>]]]

\* apply_corrections(): df[col] = df[col].replace(correct_dict)
apply_corrections(df, corr) ==
    [columns |-> df.columns, rows |-> ApplyCorrections(df.rows, corr)]

\* df.map(lambda x: x.strip() if isinstance(x, str) else x)
StripAll(df) ==
    [columns |-> df.columns,
     rows |-> [i \in 1..Len(df.rows) |->
                  [c \in DOMAIN df.rows[i] |->
                      IF IsNa(df.rows[i][c]) THEN NaN ELSE Strip(df.rows[i][c])]]]

\* the files the wizard is given: the columns carry their TCIA names, every
\* row has a Case ID and a valid Project Short Name, there is no age column
ClinicalColumns == <<N_Case_ID, N_Project_Short_Name, N_Race, N_Sex_at_Birth>>

ClinicalRow(race, sex) ==
    (N_Case_ID :> V_C1) @@ (N_Project_Short_Name :> V_Proj)
        @@ (N_Race :> race) @@ (N_Sex_at_Birth :> sex)

ClinicalRows ==
    {ClinicalRow(race, sex) : race \in {V_White, V_white, V_White_semi, V_Zzzz, V_Space, NaN},
                              sex \in {V_Male, V_male, V_Space}}

\* files that carry an Age UOM column and no age column
UomColumns == <<N_Case_ID, N_Project_Short_Name, N_Age_UOM>>

UomRows ==
    {(N_Case_ID :> V_C1) @@ (N_Project_Short_Name :> V_Proj) @@ (N_Age_UOM :> uom) :
        uom \in {V_Year, V_year, V_Zzzz}}

ClinicalFiles ==
    {[columns |-> ClinicalColumns, rows |-> r] : r \in SeqsUpTo(ClinicalRows, MaxRows)}
        \cup {[columns |-> UomColumns, rows |-> r] : r \in SeqsUpTo(UomRows, MaxRows) \ {<<>>}}

ClinicalInit ==
    /\ step = 1
    /\ session_df = EmptyFrame
    /\ invalid_found = {}
    /\ cleanup_report = NoReport
    /\ str_keeps_na \in BOOLEAN
    /\ ApplyIdle
    /\ Phase2Idle
    /\ SchemaIdle
    /\ WriteIdle
    /\ ValidateIdle
    /\ MatchIdle
    /\ RestIdle

\* Step 1: a file is imported, its texts stripped, the table stored
Step1Import(file) ==
    /\ step = 1
    /\ session_df' = StripAll(file)
    /\ step' = 2
    /\ UNCHANGED <<invalid_found, cleanup_report, str_keeps_na>>
    /\ UNCHANGED <<applyVars, phase2Vars, schemaVars, writeVars, validateVars, matchVars, restVars>>

\* Step 2, "Next step": the columns are correctly named, nothing is renamed
\* or mapped, the table is stored as it is
Step2Next ==
    /\ step = 2
    /\ step' = 3
    /\ UNCHANGED <<session_df, invalid_found, cleanup_report, str_keeps_na>>
    /\ UNCHANGED <<applyVars, phase2Vars, schemaVars, writeVars, validateVars, matchVars, restVars>>

\* Step 3, "Next step": the non-age columns are converted to strings; Case
\* ID and Project Short Name are there and valid, no Age UOM is needed
Step3Next ==
    /\ step = 3
    /\ session_df' = convert_to_strings(session_df, str_keeps_na)
    /\ step' = 4
    /\ UNCHANGED <<invalid_found, cleanup_report, str_keeps_na>>
    /\ UNCHANGED <<applyVars, phase2Vars, schemaVars, writeVars, validateVars, matchVars, restVars>>

\* Step 4, a run of the script with no button pressed: the stored table is
\* cleaned in place and its categorical columns are classified
Step4Show ==
    /\ step = 4
    /\ \E cleaned \in {validate_and_clean_data(session_df, str_keeps_na)} :
           /\ session_df' = cleaned
           /\ invalid_found' = Step4Invalid(cleaned)
    /\ cleanup_report' = validation_report(session_df, str_keeps_na)
    /\ UNCHANGED <<step, str_keeps_na>>
    /\ UNCHANGED <<applyVars, phase2Vars, schemaVars, writeVars, validateVars, matchVars, restVars>>

\* Step 4, "Apply All Corrections": offered when all_corrections is not
\* empty; the selected values replace the invalid ones in the stored table
Step4Apply ==
    /\ step = 4
    /\ \E cleaned \in {validate_and_clean_data(session_df, str_keeps_na)} :
       \E invalid \in {Step4Invalid(cleaned)} :
       \E choice \in WidgetChoices(invalid) :
           /\ all_corrections(invalid, choice) # <<>>
           /\ session_df' = apply_corrections(cleaned, all_corrections(invalid, choice))
           /\ invalid_found' = invalid
    /\ cleanup_report' = validation_report(session_df, str_keeps_na)
    /\ UNCHANGED <<step, str_keeps_na>>
    /\ UNCHANGED <<applyVars, phase2Vars, schemaVars, writeVars, validateVars, matchVars, restVars>>

\* Step 4, "Next step": offered when all_corrections is empty
Step4Next ==
    /\ step = 4
    /\ \E cleaned \in {validate_and_clean_data(session_df, str_keeps_na)} :
       \E invalid \in {Step4Invalid(cleaned)} :
       \E choice \in WidgetChoices(invalid) :
           /\ all_corrections(invalid, choice) = <<>>
           /\ session_df' = cleaned
           /\ invalid_found' = invalid
    /\ cleanup_report' = validation_report(session_df, str_keeps_na)
    /\ step' = 5
    /\ UNCHANGED str_keeps_na
    /\ UNCHANGED <<applyVars, phase2Vars, schemaVars, writeVars, validateVars, matchVars, restVars>>

ClinicalNext ==
    \/ \E file \in ClinicalFiles : Step1Import(file)
    \/ Step2Next
    \/ Step3Next
    \/ Step4Show
    \/ Step4Apply
    \/ Step4Next

SpecClinical == ClinicalInit /\ [][ClinicalNext]_vars

\* no replacement value of a column is itself a key of that column's map
ChainFree(corr) ==
    \A c \in DOMAIN corr : \A k \in DOMAIN corr[c] : corr[c][k] \notin DOMAIN corr[c]

LowerVocabulary(choices) == {Lower(c) : c \in Range(choices)}

\* the tables the last run of Phase 2 split off and validated
Phase2Tables == Phase2Split(uploaded_data, column_mapping, metadata)

\* the cells of the checked columns of those tables: <<entity, column, value>>
CheckedCells ==
    UNION {UNION {{<<e, c, Phase2Tables[e].rows[i][c]>> : i \in 1..Len(Phase2Tables[e].rows)} :
                     c \in Range(CheckedColumns(Phase2Tables[e], e, schema, permissible_values))} :
              e \in DOMAIN Phase2Tables}

\* the last run reported value v of column c of entity e as invalid
Reported(e, c, v) ==
    \E i \in 1..Len(validation[e].report) :
        validation[e].report[i].col = c /\ validation[e].report[i].val = v

\* C2: validity is case-insensitive: a cell of a checked column whose
\* lower-cased text is the lower-cased text of a vocabulary value (a casing
\* variant of it) is classified valid, so it is never reported as invalid.
C2_CaseVariantsValid ==
    ran => \A cell \in CheckedCells :
               Lower(cell[3]) \in LowerVocabulary(permissible_values[cell[2]])
                   => ~Reported(cell[1], cell[2], cell[3])

\* every non-empty trimmed token of a semicolon-delimited text is a
\* case-insensitive member of the vocabulary
TokensValid(v, choices) ==
    \A t \in Range(Split(v, ";")) :
        Strip(t) = <<>> \/ Lower(Strip(t)) \in LowerVocabulary(choices)

\* C4: a multi-valued cell (one holding ';') of a checked column is valid,
\* hence not reported, exactly when every non-empty trimmed token is a
\* case-insensitive member of the vocabulary; the joined text itself need
\* not be a member.
C4_MultiValuedByToken ==
    ran => \A cell \in CheckedCells :
               (~IsNa(cell[3]) /\ Len(Split(cell[3], ";")) > 1)
                   => (~Reported(cell[1], cell[2], cell[3])
                           <=> TokensValid(cell[3], permissible_values[cell[2]]))

\* the last run offered "Apply Corrections to e"
OfferedApply(e) == validation[e].report # <<>> /\ validation[e].corrections # <<>>

\* C5: every split entity gets its .tsv file whether or not its report or
\* its CorrectionMap is empty: once Phase 2 has run and every Apply button
\* it offers has been pressed, each split entity has a file in the output
\* directory, also the entity holding a value with no close match.
C5_EveryEntityWritten ==
    (ran /\ \A e \in DOMAIN validation : OfferedApply(e) => e \in clicked)
        => \A e \in DOMAIN split_data : FileName(e) \in DOMAIN files

\* the MissingLink of relationship end `end`, with the injected linkage
\* property f"{dst.lower()}.{dst_key}"
MissingLinkOf(end) ==
    [entity |-> end.Src, target_entity |-> end.Dst,
     property |-> LinkageProp(end.Dst, node_keys(MdfModel, MdfPropDefinitions, end.Dst))]

MappedSources(e, prop) ==
    {column_mapping[k] : k \in {prop, Dotted(e, prop)} \cap DOMAIN column_mapping}
        \cap Range(uploaded_data.columns)

\* the declared properties of e mapped to a column of the source table
MappedProps(e) == {q \in Range(SchemaProps(schema, e)) : MappedSources(e, q) # {}}

\* C8: split_data_by_schema returns a table for an entity exactly when at
\* least one of its declared properties is mapped, by a bare or by a dotted
\* key, to a column of the source table; the table's columns are exactly the
\* mapped properties and each row holds the values of a source row under the
\* target property names; entities with no mapped property are absent.
\* Stated for source tables with at least one row (split_data_by_schema
\* returns no table at all for a source without rows).
C8_SplitExactlyMapped ==
    (ran /\ uploaded_data.rows # <<>>) => \A e \in DOMAIN schema :
               /\ e \in DOMAIN split_data <=> MappedProps(e) # {}
               /\ e \in DOMAIN split_data =>
                      /\ Range(split_data[e].columns) = MappedProps(e)
                      /\ \A r \in Range(split_data[e].rows) :
                             \E s \in Range(uploaded_data.rows) :
                                 \A q \in MappedProps(e) :
                                     \E src \in MappedSources(e, q) : r[q] = s[src]

\* the rows of the source table under the mapped properties of e, before
\* duplicates are dropped
MappedRows(e) == NewDf(uploaded_data, e, column_mapping, schema).rows

\* C9: every table split_data_by_schema returns has no two rows identical
\* across all its columns, and every distinct mapped row of the source
\* appears in it exactly once; two identical mapped rows yield one.
C9_Deduplicated ==
    ran => \A e \in DOMAIN split_data :
               /\ \A i, j \in 1..Len(split_data[e].rows) :
                      split_data[e].rows[i] = split_data[e].rows[j] => i = j
               /\ Range(split_data[e].rows) = Range(MappedRows(e))
               /\ Len(split_data[e].rows) = Cardinality(Range(MappedRows(e)))

\* a source table with two identical mapped rows has been split and the
\* Subject table holds one of them
C9_Witness ==
    /\ ran
    /\ N_Subject \in DOMAIN split_data
    /\ Len(MappedRows(N_Subject)) = 2
    /\ MappedRows(N_Subject)[1] = MappedRows(N_Subject)[2]
    /\ Len(split_data[N_Subject].rows) = 1

(***************************************************************************)
(* C6: schema loading                                                      *)
(***************************************************************************)
\* the property names the nodes list that the definitions document lacks
UndefinedProps ==
    UNION {Range(model_doc.Nodes[i].Props) : i \in 1..Len(model_doc.Nodes)}
        \ DOMAIN props_doc

\* C6: schema loading fails with a SchemaLoadError whenever a node lists a
\* property name that has no definition in the property-definitions
\* document; no partial or degraded schema is returned to the caller.
C6_UndefinedPropFails ==
    (load_result # NotLoaded /\ UndefinedProps # {})
        => load_result.status = "SchemaLoadError"

(***************************************************************************)
(* C10: write_metadata_tsv                                                 *)
(***************************************************************************)
\* C10: the file write_metadata_tsv writes for an entity with a declared
\* schema has exactly one column per declared property, in the schema's
\* declared order, whatever the order of the records, the order of the keys
\* inside them and the properties they lack; it has one row per record, a
\* property the record holds is written with its value and a property
\* absent from the record is written as empty.
C10_ColumnOrderFidelity ==
    (writes >= 1 /\ write_result # None) =>
        LET written == files[write_result]
            records == AsList(write_data)
        IN  /\ written.columns = SchemaProps(WriteSchema, write_entity)
            /\ Len(written.rows) = Len(records)
            /\ \A i \in 1..Len(records) :
                   /\ DOMAIN written.rows[i] = Range(SchemaProps(WriteSchema, write_entity))
                   /\ \A q \in DOMAIN written.rows[i] :
                          /\ q \notin Range(DictKeys(records[i])) => written.rows[i][q] = <<>>
                          /\ \A k \in 1..Len(records[i]) :
                                 records[i][k][1] = q => written.rows[i][q] = records[i][k][2]

\* Subject records have been written whose keys are in another order than
\* the schema's, with an undeclared key first and declared properties missing
C10_Witness ==
    /\ writes >= 1
    /\ write_entity = N_Subject
    /\ write_data = [kind |-> "list",
                     value |-> << <<<<N_note, V_x>>, <<N_race, V_White>>>>,
                                  <<<<N_sex_at_birth, V_Male>>, <<N_subject_id, V_P1>>>> >>]
    /\ write_result = FileName(N_Subject)
    /\ files[write_result].columns
           = <<N_subject_id, N_sex_at_birth, N_race, N_dataset_dataset_id>>

(***************************************************************************)
(* C3: null and empty cells in the clinical validator                      *)
(***************************************************************************)
\* a null, empty or whitespace-only cell, also as it reads after the
\* conversion to strings (a missing cell converted to text reads 'nan')
IsNullOrEmpty(v) == IsNa(v) \/ Strip(v) = <<>> \/ v = Str(NaN)

\* C3: a null, empty or whitespace-only cell is always classified valid,
\* for every vocabulary, at every point where validation runs, also after
\* the non-age columns have been converted to strings: step 4 never lists
\* such a cell among the invalid values.
C3_NullEmptyValid ==
    \A p \in invalid_found : ~IsNullOrEmpty(p[2])

(***************************************************************************)
(* C11, C12: what write_metadata_tsv returns and leaves in output_dir      *)
(***************************************************************************)
\* C11: a call of write_metadata_tsv for an entity without a declared schema
\* (absent from the schema, or declared with no property) returns None as a
\* value and leaves output_dir as it found it: no file is added, none is
\* changed.
C11_NoSchemaNoFile ==
    (writes >= 1 /\ SchemaProps(WriteSchema, write_entity) = <<>>) =>
        /\ write_result = None
        /\ files = files_before

\* after a file was written, a call for the entity declared with no property
\* has returned None and the file is still there
C11_Witness ==
    /\ writes = 2
    /\ write_entity = N_Program
    /\ N_Program \in DOMAIN WriteSchema
    /\ write_result = None
    /\ files_before # <<>>
    /\ files = files_before

\* C12: the file a call writes is named after the entity alone
\* (lower-cased, '.tsv'); after the call that file holds what this call alone
\* writes, whatever the file held before, every other file is as it was, and
\* a call that repeats the previous call's entity and data leaves the
\* directory as the previous call left it.
C12_LastWriteWins ==
    (writes >= 1 /\ write_result # None) =>
        /\ write_result = FileName(write_entity)
        /\ DOMAIN files = DOMAIN files_before \cup {write_result}
        /\ files[write_result]
               = to_csv(<<>>, write_result,
                        WrittenFrame(write_entity, write_data, WriteSchema))[write_result]
        /\ \A f \in DOMAIN files_before : f # write_result => files[f] = files_before[f]
        /\ (/\ write_result \in DOMAIN files_before
            /\ files_before[write_result]
                   = ToCsv(WrittenFrame(write_entity, write_data, WriteSchema)))
               => files = files_before

\* the second call wrote the file the first call had written, with other rows
C12_Witness ==
    /\ writes = 2
    /\ write_result = FileName(N_Subject)
    /\ write_result \in DOMAIN files_before
    /\ files_before[write_result].rows # <<>>
    /\ files[write_result].rows # <<>>
    /\ files[write_result] # files_before[write_result]

(***************************************************************************)
(* C13, C14: the report and the CorrectionMap of validate_dataframe        *)
(***************************************************************************)
\* the invalid distinct values of the checked columns of the table of
\* entity e: <<column, value>>, the value neither blank nor in the vocabulary
InvalidPairs(e) ==
    {<<cell[2], cell[3]>> :
        cell \in {x \in CheckedCells :
                     /\ x[1] = e
                     /\ ~IsBlank(x[3])
                     /\ x[3] \notin Range(permissible_values[x[2]])}}

\* the positions of the report lines of entity e about value v of column c
LinesAbout(e, c, v) ==
    {i \in 1..Len(validation[e].report) :
        validation[e].report[i].col = c /\ validation[e].report[i].val = v}

\* the CorrectionMap of column c of entity e holds an entry for value v
HasCorrection(e, c, v) ==
    /\ c \in DOMAIN validation[e].corrections
    /\ v \in DOMAIN validation[e].corrections[c]

\* C13: for each invalid distinct value of a checked column, either
\* get_closest_match finds a match, and then the column's CorrectionMap maps
\* the value to it and one report line names both, or it finds none, and then
\* one report line says so and the CorrectionMap has no entry for the value.
C13_MatchOrNoSuggestion ==
    ran => \A e \in DOMAIN validation : \A p \in InvalidPairs(e) :
               \E match \in {ClosestMatch(p[2], permissible_values[p[1]])} :
                   /\ Cardinality(LinesAbout(e, p[1], p[2])) = 1
                   /\ \A i \in LinesAbout(e, p[1], p[2]) :
                          validation[e].report[i].suggestion = match
                   /\ match # None =>
                          /\ HasCorrection(e, p[1], p[2])
                          /\ validation[e].corrections[p[1]][p[2]] = match
                   /\ match = None => ~HasCorrection(e, p[1], p[2])

\* one Subject table holds a value with a close match and one without: the
\* report has a line for each and the CorrectionMap holds the first only
C13_Witness ==
    /\ ran
    /\ N_Subject \in DOMAIN validation
    /\ InvalidPairs(N_Subject) = {<<N_sex_at_birth, V_male>>, <<N_sex_at_birth, V_Zzzz>>}
    /\ Len(validation[N_Subject].report) = 2
    /\ HasCorrection(N_Subject, N_sex_at_birth, V_male)
    /\ ~HasCorrection(N_Subject, N_sex_at_birth, V_Zzzz)

\* C14: the report of an entity has exactly one line per distinct invalid
\* value of each checked column, however many rows hold that value.
C14_OneLinePerDistinctValue ==
    ran => \A e \in DOMAIN validation :
               /\ Len(validation[e].report) = Cardinality(InvalidPairs(e))
               /\ \A p \in InvalidPairs(e) : Cardinality(LinesAbout(e, p[1], p[2])) = 1

\* two rows of the Subject table hold the same invalid value and the report
\* has one line
C14_Witness ==
    /\ ran
    /\ N_Subject \in DOMAIN validation
    /\ Len(Phase2Tables[N_Subject].rows) = 2
    /\ N_sex_at_birth \in Range(Phase2Tables[N_Subject].columns)
    /\ \A i \in 1..2 : Phase2Tables[N_Subject].rows[i][N_sex_at_birth] = V_male
    /\ Len(validation[N_Subject].report) = 1

(***************************************************************************)
(* C15: the columns validate_dataframe checks                              *)
(***************************************************************************)
\* the call has a report line about column c
HasLine(c) == \E i \in 1..Len(val_result.report) : val_result.report[i].col = c

\* column c of the table holds a value that is neither blank nor in the
\* vocabulary of c
HoldsInvalid(c) ==
    \E i \in 1..Len(val_df.rows) :
        /\ ~IsBlank(val_df.rows[i][c])
        /\ val_df.rows[i][c] \notin Range(permissible_values[c])

\* C15: validate_dataframe checks a column only if it is both a declared
\* property of the given entity and a key of the vocabularies: any other
\* column has no report line and no CorrectionMap entry whatever it holds,
\* and a column that is both has a line as soon as it holds an invalid value.
C15_OnlyDeclaredVocabularyColumns ==
    val_result # NotValidated =>
        \A c \in Range(val_df.columns) :
            IF c \in Range(SchemaProps(schema, val_entity)) /\ c \in DOMAIN permissible_values
            THEN HoldsInvalid(c) <=> HasLine(c)
            ELSE ~HasLine(c) /\ c \notin DOMAIN val_result.corrections

\* a Subject table holds the same invalid text in a checked column, in a
\* declared column without vocabulary, in an undeclared column and in a
\* column whose vocabulary belongs to another entity: one line is reported
C15_Witness ==
    /\ val_result # NotValidated
    /\ val_entity = N_Subject
    /\ Len(val_df.rows) = 1
    /\ \A c \in Range(val_df.columns) : val_df.rows[1][c] = V_male
    /\ Len(val_result.report) = 1
    /\ val_result.report[1].col = N_sex_at_birth
    /\ DOMAIN val_result.corrections = {N_sex_at_birth}

(***************************************************************************)
(* C16: validation and the table it is given                               *)
(***************************************************************************)
\* C16: validation does not mutate the table it is given: a run of step 4
\* that only validates (no correction is applied, the wizard stays on the
\* step) leaves every cell of the stored table as it was.
C16_ValidationKeepsTable == [][Step4Show => session_df' = session_df]_vars

(***************************************************************************)
(* C17: linkage injection                                                  *)
(***************************************************************************)
\* the properties of node n that the definitions document marks as key
KeyProps(n) ==
    {p \in Range(NodeInfo(model_doc, n).Props) :
        PropDef(props_doc, p).Key \in {"True", "Yes", "true"}}

\* node dst has a primary-key property
HasKey(dst) == dst \in NodeNames(model_doc) /\ KeyProps(dst) # {}

\* the positions in the loaded property list of src of the property `name`
PositionsOf(src, name) ==
    {i \in 1..Len(load_result.value.schema[src]) :
        load_result.value.schema[src][i].Property = name}

\* the linkage names the ends that start at src call for
LinkageNames(src) ==
    {LinkageProp(AllEnds(model_doc.Relationships)[i].Dst,
                 node_keys(model_doc, props_doc, AllEnds(model_doc.Relationships)[i].Dst)) :
        i \in {j \in 1..Len(AllEnds(model_doc.Relationships)) :
                  /\ AllEnds(model_doc.Relationships)[j].Src = src
                  /\ HasKey(AllEnds(model_doc.Relationships)[j].Dst)}}

\* C17: after the schema is loaded, for every relationship end (Src, Dst)
\* whose Dst has a primary-key property, Src's property list holds the
\* property '{Dst lower-cased}.{Dst's primary key}' exactly once, as an
\* optional property when the loader added it and as Src declared it when a
\* property of that name was already there; and Src's list holds nothing
\* beyond what Src declares and these linkage properties, so that an end
\* whose Dst has no primary key adds no property.
C17_LinkageInjectedOnce ==
    load_result # NotLoaded =>
        \A src \in NodeNames(model_doc) :
            LET declared == NodeInfo(model_doc, src).Props
                loaded == load_result.value.schema[src]
            IN  /\ \A name \in LinkageNames(src) :
                       /\ Cardinality(PositionsOf(src, name)) = 1
                       /\ name \notin Range(declared) =>
                              \A i \in PositionsOf(src, name) :
                                  loaded[i].Required_optional = "O"
                /\ Len(loaded) = Len(declared) + Cardinality(LinkageNames(src) \ Range(declared))
                /\ \A i \in 1..Len(loaded) :
                       loaded[i].Property \in Range(declared) \cup LinkageNames(src)
                /\ \A i \in 1..Len(declared) : loaded[i].Property = declared[i]

\* a model whose Subject already lists 'dataset.dataset_id' was loaded with
\* definitions that make dataset_id the key of Dataset and give Subject no
\* key: Subject holds the linkage property once, Diagnosis holds none
C17_Witness ==
    /\ load_result # NotLoaded
    /\ model_doc = MdfDeclaredLinkModel
    /\ HasKey(N_Dataset)
    /\ ~HasKey(N_Subject)
    /\ Cardinality(PositionsOf(N_Subject, N_dataset_dataset_id)) = 1
    /\ SchemaProps(load_result.value.schema, N_Diagnosis) = <<N_primary_diagnosis>>

(***************************************************************************)
(* C18, C19: get_closest_match, ties and the cutoff                        *)
(***************************************************************************)
\* the score of the i-th vocabulary value against the candidate
Score(i) == Ratio(match_choices[i], Str(match_value))

\* score r is at most score q
ScoreLeq(r, q) == r[1] * q[2] <= q[1] * r[2]

\* the positions of the vocabulary values that score at or above 0.6
AtCutoff == {i \in 1..Len(match_choices) : Score(i)[1] * 10 >= 6 * Score(i)[2]}

\* among them, the positions of the values with the best score
BestScored == {i \in AtCutoff : \A j \in AtCutoff : ScoreLeq(Score(j), Score(i))}

\* the candidate is null or empty
NullOrEmpty == match_value = <<>> \/ IsNa(match_value)

\* C18: ties are broken by vocabulary order: when several vocabulary values
\* share the best score at or above the cutoff, get_closest_match returns
\* the one listed first in the vocabulary.
C18_TiesByVocabularyOrder ==
    (match_result # NotCalled /\ ~NullOrEmpty /\ BestScored # {}) =>
        match_result = match_choices[CHOOSE i \in BestScored : \A j \in BestScored : i <= j]

\* C19: for a candidate that is neither null nor empty, get_closest_match
\* returns a vocabulary value whose score is the best one and is greater
\* than or equal to the cutoff 0.6 (a score exactly at the cutoff yields a
\* match), and returns None when every vocabulary value scores below the
\* cutoff; a null or empty candidate always yields None.
C19_CutoffBoundary ==
    match_result # NotCalled =>
        IF NullOrEmpty \/ AtCutoff = {}
        THEN match_result = None
        ELSE \E i \in BestScored : match_result = match_choices[i]

\* the only vocabulary value at the cutoff scores exactly 0.6 and is returned
C19_Witness ==
    /\ match_result # NotCalled
    /\ match_value = V_abcde
    /\ AtCutoff # {}
    /\ \A i \in AtCutoff : Score(i)[1] * 10 = 6 * Score(i)[2]
    /\ match_result = V_abcxy

(***************************************************************************)
(* C20: case normalization in the cleaning step                            *)
(***************************************************************************)
\* the categorical columns of the clinical validator and their vocabularies
CategoricalColumns == {N_Race, N_Ethnicity, N_Sex_at_Birth, N_Age_UOM}

VocabularyOf(col) ==
    IF col = N_Race THEN permissible_race
    ELSE IF col = N_Ethnicity THEN permissible_ethnicity
    ELSE IF col = N_Sex_at_Birth THEN permissible_sex_at_birth
    ELSE permissible_age_uom

\* the values of a cell: the trimmed tokens for Race, the cell itself else
ValuesOfCell(col, cell) ==
    IF IsNa(cell) THEN {}
    ELSE IF col = N_Race THEN {Strip(t) : t \in Range(Split(Str(cell), ";"))}
    ELSE {cell}

\* the values column col of table df holds
ValuesOfColumn(df, col) ==
    IF col \notin Range(df.columns) THEN {}
    ELSE UNION {ValuesOfCell(col, df.rows[i][col]) : i \in 1..Len(df.rows)}

\* v matches a vocabulary entry of col only after lower-casing
CaseVariant(col, v) ==
    /\ v \notin Range(VocabularyOf(col))
    /\ Lower(v) \in LowerVocabulary(VocabularyOf(col))

\* the vocabulary entry of col that v is a casing variant of
Canonical(col, v) ==
    CHOOSE c \in Range(VocabularyOf(col)) : Lower(c) = Lower(v)

\* C20: case normalization is silent: when step 4 cleans and validates the
\* table, every value (every token, for Race) of a categorical column that
\* matches a vocabulary entry only after lower-casing is replaced by the
\* canonically capitalised entry, so that the cleaned table holds the entry
\* and no longer the variant; the substitution is in the cleanup report; and
\* no cell holding such a value is reported among the invalid values.
C20_CaseNormalizationSilent ==
    [][Step4Show =>
          \A col \in CategoricalColumns :
              \A v \in {x \in ValuesOfColumn(session_df, col) : CaseVariant(col, x)} :
                  /\ v \notin ValuesOfColumn(session_df', col)
                  /\ Canonical(col, v) \in ValuesOfColumn(session_df', col)
                  /\ <<col, v, Canonical(col, v)>> \in cleanup_report'.capitalization
                  /\ \A p \in invalid_found' : p[1] = col => v \notin ValuesOfCell(col, p[2])]_vars

(***************************************************************************)
(* C21, C22: load_resources                                                *)
(***************************************************************************)
\* the dynamically parsed vocabularies: those of the primary documents when
\* they were parsed, none else
DynamicVocabularies ==
    IF PrimaryDocs \subseteq docs_present
    THEN transform_permissible_values(model_doc, props_doc)
    ELSE <<>>

\* C21: in the vocabularies load_resources returns, a property present in
\* both the dynamically parsed vocabularies and the legacy document has the
\* dynamically parsed list, a property present only in the legacy document
\* has the legacy list unchanged, a property present only in the dynamic set
\* has its dynamic list, and there is no other property.
C21_DynamicTakesPrecedence ==
    resources # NotLoadedResources =>
        /\ DOMAIN resources.permissible_values
               = DOMAIN DynamicVocabularies \cup DOMAIN legacy_pv_doc
        /\ \A k \in DOMAIN resources.permissible_values :
               resources.permissible_values[k]
                   = IF k \in DOMAIN DynamicVocabularies
                     THEN DynamicVocabularies[k]
                     ELSE legacy_pv_doc[k]

\* the primary documents were parsed, race has a dynamic and another legacy
\* list, ethnicity a legacy list only and sex_at_birth a dynamic list only
C21_Witness ==
    /\ resources # NotLoadedResources
    /\ ~resources.legacy_warning
    /\ N_race \in DOMAIN DynamicVocabularies \cap DOMAIN legacy_pv_doc
    /\ DynamicVocabularies[N_race] # legacy_pv_doc[N_race]
    /\ resources.permissible_values[N_race] = <<V_White, V_Asian>>
    /\ N_ethnicity \in DOMAIN legacy_pv_doc \ DOMAIN DynamicVocabularies
    /\ resources.permissible_values[N_ethnicity] = <<V_Hispanic>>
    /\ N_sex_at_birth \in DOMAIN DynamicVocabularies \ DOMAIN legacy_pv_doc

\* C22: the legacy static schema is used only when the primary documents
\* are entirely absent: whenever at least one of model, properties and terms
\* is present, load_resources does not fall back to the legacy schema.
C22_LegacyOnlyWhenAllAbsent ==
    (resources # NotLoadedResources /\ docs_present # {})
        => (~resources.legacy_warning /\ resources.schema # LegacySchema)

(***************************************************************************)
(* C23: get_prioritized_options                                            *)
(***************************************************************************)
\* list l holds every value of the vocabulary exactly once and nothing else
IsArrangementOf(l, vocabulary) ==
    /\ Len(l) = Len(vocabulary)
    /\ Range(l) = Range(vocabulary)
    /\ \A i, j \in 1..Len(l) : l[i] = l[j] => i = j

\* list l is in non-increasing order of the blended score for the candidate
NonIncreasing(l) ==
    \A i, j \in 1..Len(l) :
        i < j => ~FracLess(get_similarity_score(opt_value, l[i]),
                           get_similarity_score(opt_value, l[j]))

\* C23 as stated: the returned list is the list of all vocabulary values,
\* each exactly once, in non-increasing order of the blended score, whatever
\* n_suggestions is.
C23_AllValuesByScore ==
    opt_result # NotCalled =>
        /\ IsArrangementOf(opt_result, opt_options)
        /\ NonIncreasing(opt_result)

\* C23 amended: the returned list is the entry 'Keep current value'
\* followed by all vocabulary values, each exactly once, in non-increasing
\* order of the blended score, whatever n_suggestions is.
C23_KeepThenAllValuesByScore ==
    opt_result # NotCalled =>
        /\ opt_result # <<>>
        /\ Head(opt_result) = Keep_current_value
        /\ IsArrangementOf(Tail(opt_result), opt_options)
        /\ NonIncreasing(Tail(opt_result))

\* three values were ranked with n_suggestions = 1: all three are returned,
\* in another order than the vocabulary lists them
C23_Witness ==
    /\ opt_result # NotCalled
    /\ opt_n = 1
    /\ Len(opt_options) = 3
    /\ Len(opt_result) = 4
    /\ Tail(opt_result) # opt_options

(***************************************************************************)
(* C24: the required flag of the loaded schema                             *)
(***************************************************************************)
\* the entries of the loaded schema: <<node, position>>
LoadedEntries ==
    UNION {{<<n, i>> : i \in 1..Len(load_result.value.schema[n])} :
              n \in DOMAIN load_result.value.schema}

\* C24: every property of the loaded schema carries a required flag that is
\* one of two values, 'R' or 'O'; a property a node declares is 'R' when the
\* Req of its definition is the boolean True or the token 'Yes', and 'O'
\* when it is the boolean False or the token 'No'.
C24_RequiredFlagNormalized ==
    load_result # NotLoaded =>
        \A e \in LoadedEntries :
            LET entry == load_result.value.schema[e[1]][e[2]]
                declared == NodeInfo(model_doc, e[1]).Props
            IN  /\ entry.Required_optional \in {"R", "O"}
                /\ e[2] <= Len(declared) =>
                       /\ PropDef(props_doc, declared[e[2]]).Req \in {"true", "Yes"}
                              => entry.Required_optional = "R"
                       /\ PropDef(props_doc, declared[e[2]]).Req \in {"false", "No"}
                              => entry.Required_optional = "O"

\* the loaded schema holds a property required by the boolean, one required
\* by the token, one optional by the token and one optional by the boolean
C24_Witness ==
    /\ load_result # NotLoaded
    /\ props_doc = MdfPropDefinitions
    /\ props_doc[N_dataset_id].Req = "true"
    /\ load_result.value.schema[N_Dataset][1].Required_optional = "R"
    /\ props_doc[N_subject_id].Req = "Yes"
    /\ load_result.value.schema[N_Subject][1].Required_optional = "R"
    /\ props_doc[N_sex_at_birth].Req = "No"
    /\ load_result.value.schema[N_Subject][2].Required_optional = "O"
    /\ props_doc[N_race].Req = "false"
    /\ load_result.value.schema[N_Subject][3].Required_optional = "O"

(***************************************************************************)
(* C25: the gate of step 4                                                 *)
(***************************************************************************)
\* the stored table holds, in a categorical column, a value that is neither
\* null nor empty and of which some non-empty token is no casing variant of
\* a vocabulary entry
HoldsInvalidCategorical ==
    \E col \in CategoricalColumns \cap Range(session_df.columns) :
        \E i \in 1..Len(session_df.rows) :
            /\ ~IsNullOrEmpty(session_df.rows[i][col])
            /\ ~TokensValid(session_df.rows[i][col], VocabularyOf(col))

\* C25: 'Next step' of step 4 is offered only if no corrections are needed:
\* the wizard is never at step 5 with a table that still holds an invalid
\* Race, Ethnicity, Sex at Birth or Age UOM value.
C25_NoInvalidPastStep4 == step = 5 => ~HoldsInvalidCategorical

(***************************************************************************)
(* SpecSession: the remapper's Streamlit session (tcia-remapper.py).       *)
(* Every user event runs the script from the top: the initialisation       *)
(* block, the sidebar, then the body of the current phase.  A handler that *)
(* ends in st.rerun() runs the script once more, and the action covers     *)
(* both runs.                                                              *)
(***************************************************************************)
\* the keys the initialisation block sets when 'phase' is not in the
\* session; the text-input helper keys of the Phase 0 forms (rw_*, inv_*,
\* raw_authors) are read by no modelled code and are left out
InitialSession ==
    [phase |-> 0,
     metadata |-> (N_Program :> <<>>) @@ (N_Dataset :> <<>>)
                      @@ (N_Investigator :> <<>>) @@ (N_Related_Work :> <<>>),
     phase0_step |-> "Start",
     uploaded_data |-> NoUpload,
     column_mapping |-> <<>>,
     structure_approved |-> FALSE,
     output_dir |-> "output",
     cicadas |-> [abstract |-> "", introduction |-> "", methods_subjects |-> "",
                  methods_acquisition |-> "", methods_analysis |-> "",
                  usage_notes |-> "", external_resources |-> ""],
     generated_tsv_files |-> <<>>]

\* st.session_state.<key> = value
SetKey(s, key, value) ==
    [k \in DOMAIN s \cup {key} |-> IF k = key THEN value ELSE s[k]]

\* reset_app(): every key is deleted, then phase and phase0_step are set
reset_app(s) ==
    LET keys_to_keep == {}
        kept == [k \in DOMAIN s \cap keys_to_keep |-> s[k]]
    IN  SetKey(SetKey(kept, "phase", 0), "phase0_step", "Start")

\* the top of the script: if 'phase' not in st.session_state: ...;
\* if 'pending_dois' not in st.session_state: ...
InitializeSession(s) ==
    LET s1 == IF "phase" \notin DOMAIN s
              THEN [k \in DOMAIN s \cup DOMAIN InitialSession |->
                       IF k \in DOMAIN InitialSession THEN InitialSession[k] ELSE s[k]]
              ELSE s
    IN  IF "pending_dois" \notin DOMAIN s1 THEN SetKey(s1, "pending_dois", <<>>) ELSE s1

\* the session after the first script run of a new browser session
FreshSession == InitializeSession(<<>>)

\* the keys a script run reads before and in the body of phase p; reading a
\* key that is not in the session raises AttributeError
KeysRead(p) ==
    {"output_dir", "phase"}
        \cup (IF p = 0 THEN {"phase0_step", "metadata"} ELSE {})
        \cup (IF p = 1 THEN {"metadata", "column_mapping", "structure_approved"} ELSE {})
        \cup (IF p = 2 THEN {"uploaded_data", "structure_approved", "column_mapping"} ELSE {})

Phase0Steps == {"Start", "Program", "Dataset", "CICADAS", "Investigator",
                "Related_Work", "Review"}

\* the body of the current phase, no button pressed: Phase 0 repairs an
\* unknown step, Phase 1 stores the table read from the uploader's file,
\* Phase 2 splits the stored table if there is one and the structure
\* mapping is approved
RenderPhase(s, file) ==
    IF s.phase = 0
    THEN [session |-> IF s.phase0_step \notin Phase0Steps
                      THEN SetKey(s, "phase0_step", "Program") ELSE s,
          split |-> NotSplit]
    ELSE IF s.phase = 1
    THEN [session |-> IF file # NoUpload THEN SetKey(s, "uploaded_data", file) ELSE s,
          split |-> NotSplit]
    ELSE IF s.uploaded_data = NoUpload \/ ~s.structure_approved
    THEN [session |-> s, split |-> NotSplit]
    ELSE [session |-> s,
          split |-> [split |-> TRUE,
                     df |-> s.uploaded_data,
                     column_mapping |-> s.column_mapping,
                     split_data |-> split_data_by_schema(s.uploaded_data,
                                                         s.column_mapping, schema)]]

\* one run of the script with no button pressed
RunScript(s, file) ==
    LET s1 == InitializeSession(s)
    IN  IF ~(KeysRead(s1.phase) \subseteq DOMAIN s1)
        THEN [session |-> s1, split |-> NotSplit, error |-> TRUE]
        ELSE [session |-> RenderPhase(s1, file).session,
              split |-> RenderPhase(s1, file).split,
              error |-> FALSE]

\* the uploader keeps its file only while Phase 1 renders it
UploaderAfter(run, file) ==
    IF ~run.error /\ run.session.phase = 1 THEN file ELSE NoUpload

\* the state a script run leaves behind
Ran(run, file, event) ==
    /\ session_state' = run.session
    /\ run_error' = run.error
    /\ phase2_run' = run.split
    /\ uploader' = UploaderAfter(run, file)
    /\ last_event' = event

SessionOthers ==
    UNCHANGED <<applyVars, phase2Vars, schemaVars, writeVars, clinicalVars,
                validateVars, matchVars, resourceVars, optionVars, wizardVars>>

\* the files a user uploads, as pandas reads and cleans them: two tables
\* with different columns
SessionFiles ==
    {[columns |-> <<N_PatientID>>, rows |-> <<(N_PatientID :> V_P1)>>],
     [columns |-> <<N_Val>>, rows |-> <<(N_Val :> V_Male)>>]}

\* what a "Target Property" selectbox can hold
Skip_this_column == <<"(", "S", "k", "i", "p", " ", "t", "h", "i", "s", " ", "c", "o", "l", "u", "m", "n", ")">>

PropertyOptions ==
    {Skip_this_column, Dotted(N_Subject, N_subject_id), Dotted(N_Subject, N_sex_at_birth)}

\* {target: source for target, source in mapping_data}, one selectbox per
\* column of the table shown
MappingData(df, selected) ==
    IF selected = Skip_this_column THEN <<>> ELSE (selected :> df.columns[1])

SessionInit ==
    /\ session_state = FreshSession
    /\ uploader = NoUpload
    /\ run_error = FALSE
    /\ phase2_run = NotSplit
    /\ confirmed_df = NoUpload
    /\ last_event = "new session"
    /\ ApplyIdle
    /\ Phase2Idle
    /\ SchemaIdle
    /\ WriteIdle
    /\ ClinicalIdle
    /\ ValidateIdle
    /\ MatchIdle
    /\ ResourceIdle
    /\ OptionsIdle
    /\ WizardIdle

\* the sidebar and the widgets of the body are there only if the last run
\* got as far as rendering them
Rendered == ~run_error

\* sidebar "Reset App", or "Start New Remapping" at the end of Phase 2:
\* reset_app(); st.rerun()
ResetApp ==
    /\ Rendered
    /\ Ran(RunScript(reset_app(session_state), uploader), uploader, "reset_app")
    /\ UNCHANGED confirmed_df
    /\ SessionOthers

StartNewRemapping ==
    /\ Rendered
    /\ session_state.phase = 2
    /\ phase2_run.split
    /\ Ran(RunScript(reset_app(session_state), uploader), uploader, "reset_app")
    /\ UNCHANGED confirmed_df
    /\ SessionOthers

\* the sidebar's navigation buttons: st.session_state.phase = p; st.rerun()
Navigate(p) ==
    /\ Rendered
    /\ Ran(RunScript(SetKey(session_state, "phase", p), uploader), uploader, "navigate")
    /\ UNCHANGED confirmed_df
    /\ SessionOthers

\* Phase 0: the step radio; phase0_step = current_step; st.rerun()
SelectStep(current_step) ==
    /\ Rendered
    /\ session_state.phase = 0
    /\ current_step # session_state.phase0_step
    /\ Ran(RunScript(SetKey(session_state, "phase0_step", current_step), uploader),
           uploader, "select step")
    /\ UNCHANGED confirmed_df
    /\ SessionOthers

\* Phase 0, step Dataset: "Save & Next" stores the form's record
SaveDataset ==
    /\ Rendered
    /\ session_state.phase = 0
    /\ session_state.phase0_step = "Dataset"
    /\ LET m == [session_state.metadata EXCEPT
                    ![N_Dataset] = <<(N_dataset_short_name :> V_DS1)>>]
           s == SetKey(SetKey(session_state, "metadata", m), "phase0_step", "CICADAS")
       IN  Ran(RunScript(s, uploader), uploader, "save dataset")
    /\ UNCHANGED confirmed_df
    /\ SessionOthers

\* Phase 0, step Review: "Proceed to Phase 1"
ProceedToPhase1 ==
    /\ Rendered
    /\ session_state.phase = 0
    /\ session_state.phase0_step = "Review"
    /\ Ran(RunScript(SetKey(session_state, "phase", 1), uploader), uploader, "proceed")
    /\ UNCHANGED confirmed_df
    /\ SessionOthers

\* Phase 1: the user puts a file into the uploader, replaces it or removes it
Upload(file) ==
    /\ Rendered
    /\ session_state.phase = 1
    /\ file # uploader
    /\ Ran(RunScript(session_state, file), file, "upload")
    /\ UNCHANGED confirmed_df
    /\ SessionOthers

\* Phase 1: "Confirm Mapping", shown while the uploader holds a file
ConfirmMapping(selected) ==
    /\ Rendered
    /\ session_state.phase = 1
    /\ uploader # NoUpload
    /\ LET s1 == RunScript(session_state, uploader).session
           s2 == SetKey(SetKey(s1, "column_mapping", MappingData(uploader, selected)),
                        "structure_approved", TRUE)
       IN  Ran([session |-> s2, split |-> NotSplit, error |-> FALSE], uploader,
               "confirm mapping")
    /\ confirmed_df' = uploader
    /\ SessionOthers

\* Phase 1: "Proceed to Phase 2", shown while the uploader holds a file and
\* structure_approved is set
ProceedToPhase2 ==
    /\ Rendered
    /\ session_state.phase = 1
    /\ uploader # NoUpload
    /\ session_state.structure_approved
    /\ Ran(RunScript(SetKey(session_state, "phase", 2), uploader), uploader, "proceed")
    /\ UNCHANGED confirmed_df
    /\ SessionOthers

\* the browser page is loaded again: a new, empty session and its first run
NewSession ==
    /\ Ran(RunScript(<<>>, NoUpload), NoUpload, "new session")
    /\ confirmed_df' = NoUpload
    /\ SessionOthers

SessionNext ==
    \/ ResetApp
    \/ StartNewRemapping
    \/ \E p \in 0..2 : Navigate(p)
    \/ \E current_step \in Phase0Steps : SelectStep(current_step)
    \/ SaveDataset
    \/ ProceedToPhase1
    \/ \E file \in SessionFiles \cup {NoUpload} : Upload(file)
    \/ \E selected \in PropertyOptions : ConfirmMapping(selected)
    \/ ProceedToPhase2
    \/ NewSession

SpecSession == SessionInit /\ [][SessionNext]_vars

(***************************************************************************)
(* C26: reset_app and the initialisation block                             *)
(***************************************************************************)
\* C26: after reset_app (Reset App or Start New Remapping) the session is
\* that of a new one -- phase 0, step 'Start', and metadata, uploaded_data,
\* column_mapping, structure_approved, output_dir and cicadas defined with
\* their initial values -- and the script run that follows raises no error.
C26_ResetEqualsFreshSession ==
    last_event = "reset_app" =>
        /\ ~run_error
        /\ \A k \in {"phase", "phase0_step", "metadata", "uploaded_data", "column_mapping",
                     "structure_approved", "output_dir", "cicadas"} :
               k \in DOMAIN session_state /\ session_state[k] = FreshSession[k]

(***************************************************************************)
(* C28: what Phase 2 splits                                                *)
(***************************************************************************)
\* C28: whenever Phase 2 splits the stored table, structure mapping has been
\* confirmed and the column mapping in use was confirmed against that same
\* table, whatever uploads, confirmations and phase jumps came before.
C28_MappingConfirmedForSameUpload ==
    phase2_run.split =>
        /\ session_state.structure_approved
        /\ phase2_run.column_mapping = session_state.column_mapping
        /\ confirmed_df = phase2_run.df

(***************************************************************************)
(* SpecWizard: the clinical validator's Streamlit session                  *)
(* (tcia-clinical-validator.py), steps 1 to 7.  st.session_state is a      *)
(* function from key texts to values and holds the keyed widgets' values   *)
(* too; Streamlit drops a widget's key in a script run that does not       *)
(* render the widget.  The user's selections and the button press that     *)
(* uses them are one action.  The files have no age column.                *)
(***************************************************************************)
\* None, for a key whose other values are records
NoSheets == [none |-> TRUE]

\* st.session_state[key] = value
Assign(s, key, value) ==
    [k \in DOMAIN s \cup {key} |-> IF k = key THEN value ELSE s[k]]

\* if key in st.session_state: del st.session_state[key]
Del(s, key) == [k \in DOMAIN s \ {key} |-> s[k]]

\* if key not in st.session_state: st.session_state[key] = value
SetDefault(s, key, value) == IF key \in DOMAIN s THEN s ELSE Assign(s, key, value)

\* the keys the script itself stores; every other key belongs to a widget
StateKeys ==
    {K_step, K_project_short_name, K_age_uom, K_other_sheets, K_df, K_columns_mapped,
     K_column_mapping, K_mapping_applied, K_kept_values, K_fix_column_states,
     K_mapping_complete, K_value_mappings, K_primary_site_mapped, K_primary_site_mappings,
     K_primary_diagnosis_mapped, K_primary_diagnosis_mappings, K_applying_corrections}

WidgetKeys(s) == DOMAIN s \ StateKeys

\* the prefixes reset_session_state removes keys by
ResetPrefixes ==
    {<<"s", "k", "i", "p", "_">>, <<"R", "a", "c", "e", "_">>, <<"A", "g", "e", "_">>, <<"P", "r", "i", "m", "a", "r", "y", "_", "D", "i", "a", "g", "n", "o", "s", "i", "s", "_">>, <<"P", "r", "i", "m", "a", "r", "y", "_", "S", "i", "t", "e", "_">>, <<"f", "i", "x", "_">>}

\* reset_session_state()
reset_session_state(s) ==
    LET s1 == Assign(Assign(Assign(s, K_step, 1), K_project_short_name, <<>>),
                     K_age_uom, <<>>)
        s2 == Assign(Assign(Assign(s1, K_columns_mapped, FALSE), K_column_mapping, <<>>),
                     K_mapping_applied, FALSE)
        deleted == {K_kept_values, K_fix_column_states, K_mapping_complete,
                    K_value_mappings, K_primary_diagnosis_mapped,
                    K_primary_diagnosis_mappings, K_primary_site_mapped,
                    K_primary_site_mappings, K_df}
        s3 == [k \in DOMAIN s2 \ deleted |-> s2[k]]
        keys_to_remove == {k \in DOMAIN s3 : \E p \in ResetPrefixes : StartsWith(k, p)}
    IN  [k \in DOMAIN s3 \ keys_to_remove |-> s3[k]]

\* the initialisation at the top of the script
InitializeWizard(s) ==
    SetDefault(SetDefault(SetDefault(SetDefault(s, K_step, 1), K_project_short_name, <<>>),
                          K_age_uom, <<>>),
               K_other_sheets, NoSheets)

(***************************************************************************)
(* tables: columns renamed, dropped and set                                *)
(***************************************************************************)
HasColumn(df, col) == col \in Range(df.columns)

\* df.rename(columns=renames)
RenameColumns(df, renames) ==
    LET new(c) == IF c \in DOMAIN renames THEN renames[c] ELSE c
    IN  [columns |-> [i \in 1..Len(df.columns) |-> new(df.columns[i])],
         rows |-> [i \in 1..Len(df.rows) |->
                      [c \in {new(o) : o \in Range(df.columns)} |->
                          df.rows[i][CHOOSE o \in Range(df.columns) : new(o) = c]]]]

\* df.drop(columns=cols)
DropColumns(df, cols) ==
    [columns |-> SelectSeq2(df.columns, Range(df.columns) \ cols),
     rows |-> [i \in 1..Len(df.rows) |->
                  [c \in Range(df.columns) \ cols |-> df.rows[i][c]]]]

\* a faulty assignment: the column is not added
LeaveColumn(df, col, value) == df

\* df[col] = value: every cell of the column, which is appended if new
AssignColumn(df, col, value) ==
    [columns |-> IF HasColumn(df, col) THEN df.columns ELSE Append(df.columns, col),
     rows |-> [i \in 1..Len(df.rows) |->
                  [c \in Range(df.columns) \cup {col} |->
                      IF c = col THEN value ELSE df.rows[i][c]]]]

allowable_columns ==
    <<N_Project_Short_Name, N_Case_ID, N_Race, N_Ethnicity, N_Sex_at_Birth,
      N_Age_at_Diagnosis, N_Age_at_Enrollment, N_Age_at_Surgery, N_Age_UOM,
      N_Primary_Diagnosis, N_Primary_Site>>

\* lower_allowable.get(col.lower(), col); a later column with the same
\* lower-cased name replaces an earlier one
get_correct_column_name(col) ==
    LET hits == {i \in 1..Len(allowable_columns) : Lower(allowable_columns[i]) = Lower(col)}
    IN  IF hits = {} THEN col
        ELSE allowable_columns[CHOOSE i \in hits : \A j \in hits : j <= i]

\* re.match(r'^[a-zA-Z0-9\s_-]{1,30}$', name), for a text without a line end
is_valid_project_short_name(name) ==
    /\ ~IsNa(name)
    /\ Len(name) \in 1..30
    /\ \A i \in 1..Len(name) :
           name[i] \in Range(LowerCase) \cup Range(UpperCase) \cup Digits \cup {" ", "_", "-"}

(***************************************************************************)
(* one run of the wizard's script, no button pressed                       *)
(***************************************************************************)
\* small stand-ins for the two vocabularies read from the spreadsheets
permissible_primary_site == <<V_ab, V_cd>>

permissible_primary_diagnosis == <<V_ab, V_cd>>

\* the columns that match no allowable column, whatever the capitals
UnexpectedColumns(df) ==
    SelectSeq2(df.columns,
               {c \in Range(df.columns) :
                   Lower(c) \notin {Lower(a) : a \in Range(allowable_columns)}})

\* step 2: the columns that match an allowable column but for the capitals
\* are renamed
columns_to_rename(df) ==
    [c \in {o \in Range(df.columns) : get_correct_column_name(o) # o} |->
        get_correct_column_name(c)]

\* df[~df[col].isin(vocabulary)][col].unique()
invalid_values(df, col, vocabulary) ==
    LET u == Unique(df, col)
    IN  SelectSeq2(u, {v \in Range(u) : v \notin Range(vocabulary)})

\* the body of step 2
RenderStep2(s) ==
    LET df == RenameColumns(s[K_df], columns_to_rename(s[K_df]))
        s1 == SetDefault(SetDefault(SetDefault(s, K_columns_mapped, FALSE),
                                    K_column_mapping, <<>>),
                         K_mapping_applied, FALSE)
        s2 == IF UnexpectedColumns(df) # <<>> /\ ~s1[K_mapping_applied]
              THEN s1 ELSE Assign(s1, K_columns_mapped, TRUE)
    IN  Assign(s2, K_df, df)

\* the body of step 4: the stored table is cleaned in place, and the
\* applying_corrections flag, if there, is deleted
RenderStep4(s, keeps_na) ==
    Del(Assign(s, K_df, validate_and_clean_data(s[K_df], keeps_na)), K_applying_corrections)

\* the body of steps 5 and 6, for the column and the two keys of the step
RenderMapStep(s, col, mapped_key, mappings_key) ==
    IF ~HasColumn(s[K_df], col) THEN s
    ELSE SetDefault(SetDefault(s, mapped_key, FALSE), mappings_key, <<>>)

RenderStep(s, keeps_na) ==
    IF s[K_step] = 2 THEN RenderStep2(s)
    ELSE IF s[K_step] = 4 THEN RenderStep4(s, keeps_na)
    ELSE IF s[K_step] = 5
    THEN RenderMapStep(s, N_Primary_Site, K_primary_site_mapped, K_primary_site_mappings)
    ELSE IF s[K_step] = 6
    THEN RenderMapStep(s, N_Primary_Diagnosis, K_primary_diagnosis_mapped,
                       K_primary_diagnosis_mappings)
    ELSE s

\* the keyed widgets of steps 5 and 6: one selectbox per invalid value, shown
\* while the mappings are not confirmed; its first option is selected
MapStepWidgets(s, col, mapped_key, vocabulary, prefix) ==
    IF HasColumn(s[K_df], col) /\ ~s[mapped_key]
    THEN [k \in {prefix \o Str(v) : v \in Range(invalid_values(s[K_df], col, vocabulary))} |->
             Keep_current_value]
    ELSE <<>>

\* the keyed widgets a run renders, with the values they start with: the
\* selectboxes of step 2 (key=col), the Race multiselect and the selectboxes
\* of step 4 (key=f"Race_{value}", f"{col}_{value}"), the selectboxes of
\* steps 5 and 6 (key=f"primary_site_{value}", f"primary_diagnosis_{value}")
RenderedWidgets(s) ==
    IF s[K_step] = 2
    THEN IF ~s[K_mapping_applied]
         THEN [k \in Range(UnexpectedColumns(s[K_df])) |-> Leave_unmodified]
         ELSE <<>>
    ELSE IF s[K_step] = 4
    THEN [k \in {(IF p[1] = N_Race THEN <<"R", "a", "c", "e", "_">> ELSE p[1] \o <<"_">>) \o Str(p[2]) :
                    p \in Step4Invalid(s[K_df])} |-> <<>>]
    ELSE IF s[K_step] = 5
    THEN MapStepWidgets(s, N_Primary_Site, K_primary_site_mapped,
                        permissible_primary_site, <<"p", "r", "i", "m", "a", "r", "y", "_", "s", "i", "t", "e", "_">>)
    ELSE IF s[K_step] = 6
    THEN MapStepWidgets(s, N_Primary_Diagnosis, K_primary_diagnosis_mapped,
                        permissible_primary_diagnosis, <<"p", "r", "i", "m", "a", "r", "y", "_", "d", "i", "a", "g", "n", "o", "s", "i", "s", "_">>)
    ELSE <<>>

\* one run: the initialisation, the body of the step, and the widget keys,
\* of which only those of the widgets rendered in this run are kept
RunWizard(s, keeps_na) ==
    LET state == InitializeWizard([k \in DOMAIN s \cap StateKeys |-> s[k]])
    IN  \* the body and the widgets are evaluated once
        Only({ [k \in DOMAIN r \cup DOMAIN RenderedWidgets(r) |->
                   IF k \in DOMAIN r THEN r[k] ELSE RenderedWidgets(r)[k]] :
               r \in {RenderStep(state, keeps_na)} })

(***************************************************************************)
(* the wizard's events                                                     *)
(***************************************************************************)
WizardRow(cols, vals) == [c \in Range(cols) |-> vals[IndexIn(cols, c)]]

WizardTable(cols, vals) == [columns |-> cols, rows |-> <<WizardRow(cols, vals)>>]

\* the tables the wizard is given, one row each: well-named columns with a
\* valid or an invalid Race, a lower-case 'case id' and no Project Short
\* Name, no Case ID, an unexpected column next to a Primary Site that is not
\* in the vocabulary, an invalid Project Short Name next to a Primary
\* Diagnosis that is not in the vocabulary
WizardTables ==
    {WizardTable(<<N_Case_ID, N_Project_Short_Name, N_Race>>, <<V_C1, V_Proj, V_White>>),
     WizardTable(<<N_Case_ID, N_Project_Short_Name, N_Race>>, <<V_C1, V_Proj, V_Zzzz>>),
     WizardTable(<<N_case_id_lower, N_Race>>, <<V_C1, V_White>>),
     WizardTable(<<N_Project_Short_Name, N_Race>>, <<V_Proj, V_White>>),
     WizardTable(<<N_PatientID, N_Project_Short_Name, N_Primary_Site>>, <<V_C1, V_Proj, V_abx>>),
     WizardTable(<<N_Case_ID, N_Project_Short_Name, N_Primary_Diagnosis>>,
                 <<V_C1, V_Bad_Name, V_abx>>)}

\* the other sheets of the file: none (a CSV or a one-sheet workbook) or one
WizardSheets == {<<>>, (N_Sheet2 :> EmptyFrame)}

\* what the selectbox of an unexpected column is set to
MappingOptions == {N_Case_ID, Leave_unmodified, Delete_column}

\* what is typed into a text input of step 3
TypedNames == {<<>>, V_Proj, V_Bad_Name}

WizardInit ==
    /\ wizard_state = InitializeWizard(<<>>)
    /\ wizard_keeps_na \in BOOLEAN
    /\ wizard_event = "new session"
    /\ ApplyIdle
    /\ Phase2Idle
    /\ SchemaIdle
    /\ WriteIdle
    /\ ClinicalIdle
    /\ ValidateIdle
    /\ MatchIdle
    /\ ResourceIdle
    /\ OptionsIdle
    /\ SessionIdle

\* the state a handler and the run after it leave behind
WizardRan(s, event) ==
    /\ wizard_state' = RunWizard(s, wizard_keeps_na)
    /\ wizard_event' = event
    /\ UNCHANGED wizard_keeps_na
    /\ UNCHANGED <<applyVars, phase2Vars, schemaVars, writeVars, clinicalVars,
                   validateVars, matchVars, resourceVars, optionVars, sessionVars>>

\* step 1: a file is given (and "Next" pressed for a workbook with several
\* sheets); process_file reads it, the texts are stripped, the table and the
\* other sheets are stored
WizardImport(df, sheets, keep_other_sheets) ==
    /\ wizard_state[K_step] = 1
    /\ DOMAIN sheets = {} => keep_other_sheets
    /\ LET other_sheets == IF DOMAIN sheets # {} /\ keep_other_sheets
                           THEN [sheets |-> sheets] ELSE NoSheets
       IN  WizardRan(Assign(Assign(Assign(wizard_state, K_df, StripAll(df)),
                                   K_other_sheets, other_sheets),
                            K_step, 2),
                     "import")

\* the table after "Apply column mapping": deleted columns dropped, mapped
\* columns renamed
ApplyColumnMapping(df, mapping) ==
    LET deleted == {c \in DOMAIN mapping : mapping[c] = Delete_column}
        renamed == {c \in DOMAIN mapping : mapping[c] \notin {Delete_column, Leave_unmodified}}
    IN  RenameColumns(DropColumns(df, deleted), [c \in renamed |-> mapping[c]])

\* step 2, "Apply column mapping": shown while there are unexpected columns
\* and no mapping is applied
WizardApplyMapping ==
    /\ wizard_state[K_step] = 2
    /\ UnexpectedColumns(wizard_state[K_df]) # <<>>
    /\ ~wizard_state[K_mapping_applied]
    /\ \E mapping \in [Range(UnexpectedColumns(wizard_state[K_df])) -> MappingOptions] :
           WizardRan(Assign(Assign(Assign(wizard_state, K_column_mapping, mapping),
                                   K_mapping_applied, TRUE),
                            K_df, ApplyColumnMapping(wizard_state[K_df], mapping)),
                     "apply mapping")

\* step 2, "Next step": shown when columns_mapped is set
WizardStep2Next ==
    /\ wizard_state[K_step] = 2
    /\ wizard_state[K_columns_mapped]
    /\ WizardRan(Assign(Assign(Assign(wizard_state, K_mapping_applied, FALSE),
                               K_column_mapping, <<>>),
                        K_step, 3),
                 "next")

\* step 3, "Restart": shown when the table has no 'Case ID' column
WizardStep3Restart ==
    /\ wizard_state[K_step] = 3
    /\ ~HasColumn(wizard_state[K_df], N_Case_ID)
    /\ WizardRan(Del(Assign(wizard_state, K_step, 1), K_df), "restart at step 3")

\* step 3: the Project Short Name column is missing and a valid name is
\* typed into the text input
WizardTypeName(project_short_name) ==
    /\ wizard_state[K_step] = 3
    /\ HasColumn(wizard_state[K_df], N_Case_ID)
    /\ ~HasColumn(wizard_state[K_df], N_Project_Short_Name)
    /\ project_short_name # <<>>
    /\ is_valid_project_short_name(project_short_name)
    /\ project_short_name # wizard_state[K_project_short_name]
    /\ WizardRan(Assign(wizard_state, K_project_short_name, project_short_name), "type")

\* the table step 3 stores: the Project Short Name column added if missing,
\* the invalid names replaced, the Age UOM column added if it is missing and
\* an age column is there
Step3Table(df, missing_name, project_short_name, name_updates, missing_uom, age_uom) ==
    LET df1 == IF missing_name
               THEN AssignColumn(df, N_Project_Short_Name, project_short_name) ELSE df
        df2 == [columns |-> df1.columns,
                rows |-> ApplyCorrections(df1.rows, (N_Project_Short_Name :> name_updates))]
    IN  IF missing_uom THEN AssignColumn(df2, N_Age_UOM, age_uom) ELSE df2

\* step 3, "Next step", with what the text inputs hold when it is pressed;
\* pressed with an input missing or invalid it changes nothing
WizardStep3Next(project_short_name, new_name) ==
    /\ wizard_state[K_step] = 3
    /\ HasColumn(wizard_state[K_df], N_Case_ID)
    /\ \E df \in {convert_to_strings(wizard_state[K_df], wizard_keeps_na)} :
       LET missing_project_short_name == ~HasColumn(df, N_Project_Short_Name)
           missing_age_uom ==
               ~HasColumn(df, N_Age_UOM) /\ Range(df.columns) \cap age_columns # {}
           invalid_names ==
               IF missing_project_short_name THEN {}
               ELSE {n \in Range(Unique(df, N_Project_Short_Name)) :
                        ~is_valid_project_short_name(n)}
           name_updates == [n \in invalid_names |-> new_name]
           age_uom == IF wizard_state[K_age_uom] = <<>> THEN permissible_age_uom[1]
                      ELSE wizard_state[K_age_uom]
           s1 == IF missing_project_short_name
                 THEN Assign(wizard_state, K_project_short_name, project_short_name)
                 ELSE wizard_state
           s2 == IF missing_age_uom THEN Assign(s1, K_age_uom, age_uom) ELSE s1
       IN  /\ missing_project_short_name =>
                  project_short_name # <<>> /\ is_valid_project_short_name(project_short_name)
           /\ ~missing_project_short_name => project_short_name = <<>>
           /\ invalid_names # {} => new_name # <<>> /\ is_valid_project_short_name(new_name)
           /\ invalid_names = {} => new_name = <<>>
           /\ WizardRan(Assign(Assign(s2, K_df,
                                      Step3Table(df, missing_project_short_name,
                                                 project_short_name, name_updates,
                                                 missing_age_uom, age_uom)),
                               K_step, 4),
                        "next")

\* step 4, "Apply All Corrections": shown when all_corrections is not empty
WizardStep4Apply ==
    /\ wizard_state[K_step] = 4
    /\ \E cleaned \in {validate_and_clean_data(wizard_state[K_df], wizard_keeps_na)} :
       \E invalid \in {Step4Invalid(cleaned)} :
       \E choice \in WidgetChoices(invalid) :
           /\ all_corrections(invalid, choice) # <<>>
           /\ WizardRan(Assign(Assign(wizard_state, K_applying_corrections, TRUE),
                               K_df, apply_corrections(cleaned,
                                                       all_corrections(invalid, choice))),
                        "apply corrections")

\* step 4, "Next step": shown when all_corrections is empty
WizardStep4Next ==
    /\ wizard_state[K_step] = 4
    /\ \E cleaned \in {validate_and_clean_data(wizard_state[K_df], wizard_keeps_na)} :
       \E invalid \in {Step4Invalid(cleaned)} :
       \E choice \in WidgetChoices(invalid) :
           /\ all_corrections(invalid, choice) = <<>>
           /\ LET skipped == {k \in DOMAIN wizard_state :
                                 StartsWith(k, <<"s", "k", "i", "p", "_">>)}
              IN  WizardRan(Assign(Assign([k \in DOMAIN wizard_state \ skipped |->
                                              wizard_state[k]],
                                          K_df, cleaned),
                                   K_step, 5),
                            "next")

\* steps 5 and 6, "Confirm ... mappings": shown while some value is not in
\* the vocabulary and the mappings are not confirmed; every selectbox holds
\* one of get_prioritized_options(value, vocabulary)
WizardConfirmMappings(step_number, col, mapped_key, mappings_key, vocabulary) ==
    /\ wizard_state[K_step] = step_number
    /\ HasColumn(wizard_state[K_df], col)
    /\ ~wizard_state[mapped_key]
    /\ \E invalid \in {Range(invalid_values(wizard_state[K_df], col, vocabulary))} :
           /\ invalid # {}
           /\ \E selected \in [invalid -> Range(vocabulary) \cup {Keep_current_value}] :
                  /\ \A v \in invalid :
                         selected[v] \in Range(get_prioritized_options(v, vocabulary, 5))
                  /\ LET mappings == [v \in {x \in invalid :
                                                selected[x] # Keep_current_value} |->
                                         selected[v]]
                         df == IF DOMAIN mappings # {}
                               THEN [columns |-> wizard_state[K_df].columns,
                                     rows |-> ApplyCorrections(wizard_state[K_df].rows,
                                                               (col :> mappings))]
                               ELSE wizard_state[K_df]
                     IN  WizardRan(Assign(Assign(Assign(wizard_state, mappings_key, mappings),
                                                 mapped_key, TRUE),
                                          K_df, df),
                                   "confirm mappings")

\* steps 5 and 6, "Map additional values": shown with the mapping summary
WizardMapAdditional(step_number, col, mapped_key, mappings_key, vocabulary) ==
    /\ wizard_state[K_step] = step_number
    /\ HasColumn(wizard_state[K_df], col)
    /\ invalid_values(wizard_state[K_df], col, vocabulary) # <<>>
    /\ wizard_state[mapped_key]
    /\ WizardRan(Assign(Assign(wizard_state, mapped_key, FALSE), mappings_key, <<>>),
                 "map additional")

\* steps 5 and 6, "Next step": shown when the column is missing, when all
\* its values are in the vocabulary, and with the mapping summary
WizardMapStepNext(step_number, col, mapped_key, vocabulary) ==
    /\ wizard_state[K_step] = step_number
    /\ IF HasColumn(wizard_state[K_df], col)
       THEN IF invalid_values(wizard_state[K_df], col, vocabulary) = <<>>
            THEN TRUE ELSE wizard_state[mapped_key]
       ELSE TRUE
    /\ WizardRan(Assign(wizard_state, K_step, step_number + 1), "next")

WizardStep5Confirm ==
    WizardConfirmMappings(5, N_Primary_Site, K_primary_site_mapped, K_primary_site_mappings,
                          permissible_primary_site)

WizardStep5MapAdditional ==
    WizardMapAdditional(5, N_Primary_Site, K_primary_site_mapped, K_primary_site_mappings,
                        permissible_primary_site)

WizardStep5Next ==
    WizardMapStepNext(5, N_Primary_Site, K_primary_site_mapped, permissible_primary_site)

WizardStep6Confirm ==
    WizardConfirmMappings(6, N_Primary_Diagnosis, K_primary_diagnosis_mapped,
                          K_primary_diagnosis_mappings, permissible_primary_diagnosis)

WizardStep6MapAdditional ==
    WizardMapAdditional(6, N_Primary_Diagnosis, K_primary_diagnosis_mapped,
                        K_primary_diagnosis_mappings, permissible_primary_diagnosis)

WizardStep6Next ==
    WizardMapStepNext(6, N_Primary_Diagnosis, K_primary_diagnosis_mapped,
                      permissible_primary_diagnosis)

\* step 7, "Restart": reset_session_state(); st.rerun()
WizardRestart ==
    /\ wizard_state[K_step] = 7
    /\ WizardRan(reset_session_state(wizard_state), "restart")

WizardNext ==
    \/ \E df \in WizardTables, sheets \in WizardSheets, keep_other_sheets \in BOOLEAN :
           WizardImport(df, sheets, keep_other_sheets)
    \/ WizardApplyMapping
    \/ WizardStep2Next
    \/ WizardStep3Restart
    \/ \E project_short_name \in TypedNames : WizardTypeName(project_short_name)
    \/ \E project_short_name \in TypedNames, new_name \in TypedNames :
           WizardStep3Next(project_short_name, new_name)
    \/ WizardStep4Apply
    \/ WizardStep4Next
    \/ WizardStep5Confirm
    \/ WizardStep5MapAdditional
    \/ WizardStep5Next
    \/ WizardStep6Confirm
    \/ WizardStep6MapAdditional
    \/ WizardStep6Next
    \/ WizardRestart

SpecWizard == WizardInit /\ [][WizardNext]_vars

(***************************************************************************)
(* C27: Restart at step 7                                                  *)
(***************************************************************************)
\* C27: after Restart at step 7 the session is at step 1 and holds nothing of
\* the previous run: no table, no other sheets, no column mapping, no value
\* mapping, no correction flag and no per-value widget key.
C27_RestartLeavesNothing ==
    wizard_event = "restart" =>
        /\ wizard_state[K_step] = 1
        /\ K_df \notin DOMAIN wizard_state
        /\ wizard_state[K_other_sheets] = NoSheets
        /\ wizard_state[K_column_mapping] = <<>>
        /\ {K_value_mappings, K_primary_site_mappings, K_primary_diagnosis_mappings,
            K_applying_corrections} \cap DOMAIN wizard_state = {}
        /\ WidgetKeys(wizard_state) = {}

(***************************************************************************)
(* C29: the columns the later steps rely on, and the order of the steps    *)
(***************************************************************************)
\* C29: at every step from 4 on the stored table has a 'Case ID' and a
\* 'Project Short Name' column, and every event leaves the step where it is,
\* moves it from k to k+1, or takes it back to 1.
C29_RequiredColumnsFromStep4 ==
    /\ [](wizard_state[K_step] >= 4 =>
              /\ K_df \in DOMAIN wizard_state
              /\ HasColumn(wizard_state[K_df], N_Case_ID)
              /\ HasColumn(wizard_state[K_df], N_Project_Short_Name))
    /\ [][wizard_state'[K_step] \in {wizard_state[K_step], wizard_state[K_step] + 1, 1}]_vars

\* step 7 is reached with a table whose Project Short Name column was added
\* by step 3 from the typed name
C29_Witness ==
    /\ wizard_state[K_step] = 7
    /\ wizard_state[K_project_short_name] = V_Proj
    /\ HasColumn(wizard_state[K_df], N_Case_ID)
    /\ wizard_state[K_df].rows[1][N_Project_Short_Name] = V_Proj

(***************************************************************************)
(* C30: what a CorrectionMap maps to                                       *)
(***************************************************************************)
\* the values column c holds in a table
ColumnValues(df, c) == {df.rows[i][c] : i \in 1..Len(df.rows)}

\* C30: in every CorrectionMap validate_dataframe produces, each key is a
\* value of the column that is not in the column's vocabulary, each
\* suggestion is a member of that vocabulary and so is no key, and once the
\* map has been applied the table written holds no key in that column.
C30_CorrectionsTargetVocabulary ==
    ran =>
        \A tables \in {Phase2Tables} :
        \A e \in DOMAIN validation :
        \A c \in DOMAIN validation[e].corrections :
        \A m \in {validation[e].corrections[c]} :
        \A k \in DOMAIN m :
            /\ k \in ColumnValues(tables[e], c)
            /\ k \notin Range(permissible_values[c])
            /\ m[k] \in Range(permissible_values[c])
            /\ m[k] \notin DOMAIN m
            /\ e \in clicked => k \notin ColumnValues(files[FileName(e)], c)

\* the corrections of Subject, which replace 'male', have been applied and
\* the file written holds the suggestion in its place
C30_Witness ==
    /\ ran
    /\ N_Subject \in clicked
    /\ HasCorrection(N_Subject, N_sex_at_birth, V_male)
    /\ V_male \in ColumnValues(Phase2Tables[N_Subject], N_sex_at_birth)
    /\ validation[N_Subject].corrections[N_sex_at_birth][V_male]
           \in ColumnValues(files[FileName(N_Subject)], N_sex_at_birth)

Init == ApplyInit
Next == ApplyNext
Spec == Init /\ [][Next]_vars
====
